---- MODULE Spec2Model ----
(***************************************************************************)
(* Control loop of ControllerGUI.py (8-axis Galil servo console): startup  *)
(* seeding of the setpoint fields, the setpoint confirm workflow of        *)
(* handle_servo_event, the keyboard edit filter, and the POSITION_POLL     *)
(* handler with its soft-limit interlock, over the gclib transport of      *)
(* communications.py (the GUI always opens CommMode1); the jog buttons of   *)
(* handle_jog_press; the polling thread of ControllerPolling.py with the   *)
(* event queue between it and the control loop; and the ControllerComm     *)
(* object of communications.py in its three modes.                         *)
(*                                                                         *)
(* Units.  Every degree quantity (setpoints, limits, positions) is an      *)
(* integer number of hundredths of a degree; device quantities are whole   *)
(* pulses.  The input sets hold no value with a 5 in the hundredths place, *)
(* so Python's round(x, 1) on binary floats and the exact half-even        *)
(* rounding below agree on every value the model feeds them.               *)
(* An absent value (Python None, or the empty string of _last_valid_pos)   *)
(* is the empty tuple <<>>, a present value v is <<v>>.                    *)
(***************************************************************************)
EXTENDS Integers, Sequences, FiniteSets, TLC

\* ------------------------------------------------------------------ bounds
\* Operator actions (edits and OK presses) the control loop handles in a run.
MaxOperatorActions == 2
\* Cap of the consecutive-invalid counter (an unbounded Python int).
MaxInvalidRun == 5
\* Cap of the reply queue of the transport (an unbounded queue.Queue).
MaxQueue == 2
\* Polling cycles of a run, and POSITION_POLL events waiting in the window's
\* event queue (both unbounded in the program).
MaxCycles == 3
MaxEvents == 1
\* Messages the device sends on its own over a serial or datagram link.
MaxDeviceMessages == 2
\* Lines of one raw reply text.
MaxLines == 2

\* ------------------------------------------------------- static configuration
\* The three modelled servos: 1 = axis A, 2 = axis B, 3 = axis C.
Servos == {1, 2, 3}

AXIS_LETTERS == <<"A", "B", "C">>

setpoint_fields == <<"speed", "accel", "decel", "abs_pos", "rel_pos">>

Fields == {setpoint_fields[k] : k \in 1..Len(setpoint_fields)}

\* AXIS_UNITS as loaded from controller_config.ini: axis A is the calibration
\* of the spec's example (0..180 deg, scaling 500, gearbox 4), axis B has a
\* calibration that differs from the default ranges (-45..90 deg, 7 pulses per
\* degree), axis C has no section in the file.
AXIS_UNITS ==
    [x \in {"A", "B"} |->
        IF x = "A"
        THEN [min |-> 0, max |-> 18000, pulses |-> 180000, degrees |-> 360,
              scaling |-> 500, gearbox |-> 4]
        ELSE [min |-> -4500, max |-> 9000, pulses |-> 2520, degrees |-> 360,
              scaling |-> 7, gearbox |-> 1]]

\* Default numeric limits for fields, in hundredths of a degree.
NUMERIC_LIMITS ==
    [f \in Fields |->
        CASE f = "speed"   -> <<-18000, 18000>>
          [] f = "accel"   -> <<0, 18000>>
          [] f = "decel"   -> <<0, 18000>>
          [] f = "abs_pos" -> <<0, 18000>>
          [] f = "rel_pos" -> <<-9000, 9000>>]

\* The two-letter opcode GALIL_COMMAND_MAP gives each setpoint field.
GALIL_COMMAND_MAP ==
    [f \in Fields |->
        CASE f = "speed"   -> "SP"
          [] f = "accel"   -> "AC"
          [] f = "decel"   -> "DC"
          [] f = "abs_pos" -> "PA"
          [] f = "rel_pos" -> "PR"]

\* ------------------------------------------------------------------ helpers
\* round(n / d) to the nearest integer, ties to the even one (d > 0).
RoundHalfEven(n, d) ==
    LET q == n \div d
        r == n % d
    IN  IF 2 * r < d THEN q
        ELSE IF 2 * r > d THEN q + 1
        ELSE IF q % 2 = 0 THEN q ELSE q + 1

\* round(float(val), 1) on a value in hundredths: the nearest tenth.
RoundTenths(v) == 10 * RoundHalfEven(v, 10)

\* Field texts: blank, a lone sign (not a number), or a number.
Blank == <<"blank">>

Dash == <<"dash">>

Num(v) == <<"num", v>>

IsNum(t) == Len(t) = 2

\* format_display_value: the number rounded to one decimal, as text.
format_display_value(v) == Num(RoundTenths(v))

\* AXIS_UNITS[axis].get('scaling', 1) * AXIS_UNITS[axis].get('gearbox', 1)
PulsesPerDeg(x) == AXIS_UNITS[x].scaling * AXIS_UNITS[x].gearbox

\* A conversion that leaves the gearbox ratio out.
DegToPulses_NoGearbox(v, x) == RoundHalfEven(v * AXIS_UNITS[x].scaling, 100)

\* int(round(value * scaling * gearbox)), value in hundredths of a degree.
DegToPulses(v, x) == RoundHalfEven(v * PulsesPerDeg(x), 100)

\* ------------------------------------------------------------------ state
VARIABLES
    pc,                     \* "startup", "running" or "crashed" (uncaught exception)
    comm,                   \* "none" (comm = None), "failed" (gclib = None) or "open"
    last_setpoints,         \* window._last_setpoints: <<>> while the attribute is missing
    field_text,             \* text of the input widget S<servo>_<field>
    last_valid_pos,         \* window._last_valid_pos
    invalid_resp_counters,  \* window._invalid_resp_counters
    limit_tripped,          \* window._limit_tripped
    ev,                     \* the event the control loop handled last, with its inputs
    wire,                   \* the send_command calls of that handler, in order
    dialogs,                \* the popups that handler showed, in order
    nOperator,              \* operator actions handled so far
    hyst,                   \* observer of the sample sequence of servo 1
    actual_pos,             \* text of the display widget S<servo>_actual_pos
    mode,                   \* ControllerComm.mode
    message_queue,          \* ControllerComm.message_queue
    active_tab,             \* the servo of the selected tab of TABGROUP
    stop_event,             \* the threading.Event of start_polling_thread
    poll,                   \* the polling thread: position in its loop and locals
    events,                 \* POSITION_POLL events written and not yet read
    cycle_log,              \* observer of the polling cycles
    link,                   \* the device's side of a serial port or datagram socket
    status_text             \* text and colour of the widgets S<servo>_status_light/_text

vars == <<pc, comm, last_setpoints, field_text, last_valid_pos,
          invalid_resp_counters, limit_tripped, ev, wire, dialogs, nOperator, hyst,
          actual_pos, mode, message_queue, active_tab, stop_event, poll, events,
          cycle_log, link, status_text>>

\* The state of the polling thread and of its observer.
pollVars == <<stop_event, poll, events, cycle_log>>

\* ---------------------------------------------------------------- transport
\* ControllerComm.send_command in CommMode1: one gclib GCommand call.  The
\* command is delivered when the connection opened and the call does not
\* raise (io = "ok"); with gclib = None, or when GCommand raises, the except
\* clause returns False.  The value is the record of the call.
send_command(cmd, io) ==
    [cmd |-> cmd, delivered |-> (comm = "open" /\ io = "ok")]

IoOutcomes == {"ok", "err"}

\* query_prefixes of send_command (line 247).
query_prefixes == {"MG", "TP", "RP", "QR", "QA", "QZ", "QM", "QH", "QX"}

\* The first two characters of a command: the MG operand queries of the
\* startup seeding and of the polling thread begin with MG, every other
\* opcode of the model is its own two letters.
CommandPrefix(op) ==
    IF op \in {"MG _SP", "MG _AC", "MG _DC", "MG _TP", "MG _MO", "MG _RP",
               "MG _TC", "MG _SPE"}
    THEN "MG" ELSE op

\* The controller's reply text to a command that is not a query (the ':'
\* acknowledgement), and the 'SENT: <cmd>' line of the serial mode.
Acknowledgement == [kind |-> "reply"]

SentLine(cmd) == [kind |-> "sent", cmd |-> cmd]

\* A send_command that puts the reply of every command on the queue.
QueuedBy_QueriesToo(call) ==
    IF ~call.delivered THEN <<>>
    ELSE CASE mode = "CommMode1" -> <<Acknowledgement>>
           [] mode = "CommMode2" -> <<SentLine(call.cmd)>>
           [] OTHER -> <<>>

\* What one send_command call puts on message_queue: in CommMode1 the reply
\* of a command that is not a query (line 255), in CommMode2 the 'SENT: cmd'
\* line of every written command (line 238), in CommMode3 nothing.
QueuedBy(call) ==
    IF ~call.delivered THEN <<>>
    ELSE CASE mode = "CommMode1" ->
                IF CommandPrefix(call.cmd.op) \in query_prefixes THEN <<>>
                ELSE <<Acknowledgement>>
           [] mode = "CommMode2" -> <<SentLine(call.cmd)>>
           [] OTHER -> <<>>

RECURSIVE QueuedByAll(_)
\* The messages a sequence of send_command calls puts on the queue, in order.
QueuedByAll(calls) ==
    IF calls = <<>> THEN <<>>
    ELSE QueuedBy(Head(calls)) \o QueuedByAll(Tail(calls))

\* Command records: opcode, axis letter, optional pulses argument.
Cmd(op, x, arg) == [op |-> op, axis |-> x, arg |-> arg]

\* The startup queries of one axis, in the order of the queries dict.
SeedQueries(x) ==
    <<Cmd("MG _SP", x, <<>>), Cmd("MG _AC", x, <<>>), Cmd("MG _DC", x, <<>>),
      Cmd("MG _TP", x, <<>>), Cmd("MG _MO", x, <<>>)>>

\* ------------------------------------------------------------------ startup
\* The enable indication of a servo tab: 'Disabled' in gray as laid out
\* (lines 211-212), 'Enabled' in green, 'Disabled' in yellow, and 'Stopped
\* (limit)' in orange-red.
IndicatorInitial == "Disabled (gray)"

IndicatorEnabled == "Enabled"

IndicatorDisabled == "Disabled"

IndicatorStopped == "Stopped (limit)"

SeedFields == {"speed", "accel", "decel", "abs_pos"}

\* The replies to the five startup queries of one axis: none.
NoSeed == [f \in SeedFields \cup {"status"} |-> <<>>]

\* Numeric replies of the controller to the startup queries, in pulses, and
\* to MG _MO in thousandths (0.0: motor on).  Axis B reports a position of
\* 100 deg, beyond its calibrated maximum of 90 deg.
FullSeed(i) ==
    CASE i = 1 -> [speed |-> <<20000>>, accel |-> <<40000>>, decel |-> <<40000>>,
                   abs_pos |-> <<1240>>, status |-> <<0>>]
      [] i = 2 -> [speed |-> <<70>>, accel |-> <<140>>, decel |-> <<140>>,
                   abs_pos |-> <<700>>, status |-> <<0>>]
      [] i = 3 -> [speed |-> <<10>>, accel |-> <<20>>, decel |-> <<20>>,
                   abs_pos |-> <<20>>, status |-> <<0>>]

SpeedOnlySeed == [NoSeed EXCEPT !["speed"] = <<20000>>]

\* Axis A found at 200 deg, beyond its maximum of 180 deg.
BeyondSeed == [FullSeed(1) EXCEPT !["abs_pos"] = <<400000>>]

\* scaling * gearbox of the axis, 1 for each value that is missing or zero.
SeedDenom(i) ==
    LET x == AXIS_LETTERS[i]
    IN  IF x \in DOMAIN AXIS_UNITS
        THEN (IF AXIS_UNITS[x].scaling = 0 THEN 1 ELSE AXIS_UNITS[x].scaling)
             * (IF AXIS_UNITS[x].gearbox = 0 THEN 1 ELSE AXIS_UNITS[x].gearbox)
        ELSE 1

\* val_deg = raw / denom, in hundredths of a degree.
SeedValue(i, raw) == RoundHalfEven(raw * 100, SeedDenom(i))

NoSetpoints == [i \in Servos |-> [f \in Fields |-> <<>>]]

\* The setpoints and texts of one servo after its seeding pass.
SeededSetpoints(i, results) ==
    [f \in Fields |->
        IF f = "rel_pos" THEN <<0>>
        ELSE IF results[f] # <<>> THEN <<SeedValue(i, results[f][1])>>
        ELSE <<>>]

SeededTexts(i, results, old) ==
    [f \in Fields |->
        IF f = "rel_pos" THEN Num(0)
        ELSE IF results[f] # <<>>
             THEN format_display_value(SeedValue(i, results[f][1]))
        ELSE old[f]]

\* Lines 369-378: the indicator of one servo after its seeding pass.  A
\* status of exactly 0 shows Enabled, any other number Disabled; without a
\* numeric reply the indicator stays as it is.
SeededIndicator(results, old) ==
    IF results["status"] = <<>> THEN old
    ELSE IF results["status"][1] = 0 THEN IndicatorEnabled
    ELSE IndicatorDisabled

NoHyst == [n |-> 0, stops |-> <<>>, clears |-> <<>>]

\* The polling thread before start_polling_thread (line 689) has run.
NoReplies == [k \in 1..4 |-> <<>>]

NotStarted == [pc |-> "not_started", servo |-> 0, k |-> 0, tries |-> 0,
               resp |-> NoReplies]

\* The polling thread at the head of its while loop (line 21).
LoopHead == [NotStarted EXCEPT !.pc = "loop_head"]

\* Observer of the polling cycles: cycles begun, cycles that reached step 4,
\* events written, per servo the cycles that ended without a position
\* reply since the last one that ended with one, the tab that was selected
\* when the cycle in hand began, the axes its queries went to, in order,
\* the number of queued replies its first flush discarded, and while the
\* cycle runs the numeric line GCommand returned to each of its queries.
NoCycles == [begun |-> 0, ended |-> 0, emitted |-> 0,
             missed |-> [i \in Servos |-> 0],
             selected |-> 0, queried |-> <<>>, drained |-> 0,
             own |-> NoReplies]

\* The tab that is selected when the window opens.
FirstTab == 1

\* The window and the threads before anything ran.
InitWindow ==
    /\ last_setpoints = <<>>
    /\ field_text = [i \in Servos |-> [f \in Fields |-> Blank]]
    /\ last_valid_pos = [i \in Servos |-> <<>>]
    /\ invalid_resp_counters = [i \in Servos |-> 0]
    /\ limit_tripped = [i \in Servos |-> FALSE]
    /\ ev = [kind |-> "none"]
    /\ wire = <<>>
    /\ dialogs = <<>>
    /\ nOperator = 0
    /\ hyst = NoHyst
    /\ actual_pos = [i \in Servos |-> Blank]
    /\ status_text = [i \in Servos |-> IndicatorInitial]
    /\ message_queue = <<>>
    /\ active_tab = FirstTab
    /\ stop_event = FALSE
    /\ poll = NotStarted
    /\ events = <<>>
    /\ cycle_log = NoCycles

\* The device's side of the link: messages it has sent (numbered in the order
\* sent), those waiting in the operating system's buffer of the port or the
\* socket, the serial reader thread, and the device messages receive_response
\* has returned so far.  CommMode1 has no such link: gclib returns the reply
\* from the GCommand call.
NoLink == [sent |-> 0, inbound |-> <<>>, reader |-> "none", returned |-> <<>>]

\* ControllerGUI.py after lines 184-197: the constructor raised (comm = None),
\* GOpen failed (gclib = None) or the connection is open.
Init ==
    /\ pc = "startup"
    /\ mode = "CommMode1"
    /\ comm \in {"none", "failed", "open"}
    /\ link = NoLink
    /\ InitWindow

\* initialize_setpoints_from_controller, then the polling thread starts and the
\* main loop is entered.  Without a comm object nothing is seeded.  Otherwise
\* every axis is queried in turn; a field with a numeric reply is written to
\* the widget and to _last_setpoints (created on the first such field).  Line
\* 368 writes _last_setpoints[servo]['rel_pos'] unconditionally: when no field
\* of servo 1 got a numeric reply the attribute does not exist yet and the
\* AttributeError ends the program.  With gclib = None every send_command
\* returns False, so no field gets a reply.
initialize_setpoints_from_controller(seed) ==
    LET results == [i \in Servos |-> IF comm = "open" THEN seed[i] ELSE NoSeed]
        q(x)    == [k \in 1..5 |-> send_command(SeedQueries(x)[k], "ok")]
    IN  IF comm = "none"
        THEN /\ pc' = "running"
             /\ wire' = <<>>
             /\ UNCHANGED <<last_setpoints, field_text, status_text>>
        ELSE IF \A f \in SeedFields : results[1][f] = <<>>
        THEN /\ pc' = "crashed"
             /\ wire' = q("A")
             /\ field_text' = [field_text EXCEPT ![1]["rel_pos"] = Num(0)]
             /\ UNCHANGED <<last_setpoints, status_text>>
        ELSE /\ pc' = "running"
             /\ wire' = q("A") \o q("B") \o q("C")
             /\ last_setpoints' = [i \in Servos |-> SeededSetpoints(i, results[i])]
             /\ status_text' =
                  [i \in Servos |-> SeededIndicator(results[i], status_text[i])]
             /\ field_text' =
                  [i \in Servos |-> SeededTexts(i, results[i], field_text[i])]

\* Every axis answers all its startup queries.
FullSeeds == {[i \in Servos |-> FullSeed(i)]}

\* The seedings of the setpoint workflow: no reply at all, every reply, axis A
\* beyond its range, and the speed of axis A alone.
SetpointSeeds ==
    {[i \in Servos |-> NoSeed],
     [i \in Servos |-> FullSeed(i)],
     [i \in Servos |-> IF i = 1 THEN BeyondSeed ELSE FullSeed(i)],
     [i \in Servos |-> IF i = 1 THEN SpeedOnlySeed ELSE NoSeed]}

Startup(seeds) ==
    /\ pc = "startup"
    /\ \E seed \in seeds :
          /\ initialize_setpoints_from_controller(seed)
          /\ ev' = [kind |-> "startup",
                    status |-> [i \in Servos |->
                                  IF comm = "open" THEN seed[i]["status"]
                                  ELSE <<>>]]
    /\ poll' = IF pc' = "running" THEN LoopHead ELSE poll
    /\ dialogs' = <<>>
    /\ UNCHANGED <<link, comm, last_valid_pos, invalid_resp_counters, limit_tripped,
                   nOperator, hyst, actual_pos, mode, message_queue, active_tab,
                   stop_event, events, cycle_log>>

\* ------------------------------------------------------------ POSITION_POLL
\* pulses_per_degree of the handler: the scaling, else pulses / degrees, and 1
\* when that is not positive.
pulses_per_degree(x) ==
    LET u   == AXIS_UNITS[x]
        ppd == IF u.scaling # 0 THEN u.scaling
               ELSE u.pulses \div (IF u.degrees > 1 THEN u.degrees ELSE 1)
    IN  IF ppd <= 0 THEN 1 ELSE ppd

\* The try block of lines 733-750 reaches valid = True: a position reply is
\* present, the axis has an AXIS_UNITS entry (a KeyError is swallowed) and the
\* division is defined.
Decodable(i, pos_resp) ==
    /\ pos_resp # <<>>
    /\ AXIS_LETTERS[i] \in DOMAIN AXIS_UNITS
    /\ AXIS_UNITS[AXIS_LETTERS[i]].gearbox # 0

\* pulses_per_degree * gearbox, the divisor of pos_val_deg.
PosDivisor(x) == pulses_per_degree(x) * AXIS_UNITS[x].gearbox

\* A comparison that counts the two bounds themselves as outside.
OutsideLimits_BoundsExcluded(pulses, x) ==
    \/ pulses * 100 <= AXIS_UNITS[x].min * PosDivisor(x)
    \/ pulses * 100 >= AXIS_UNITS[x].max * PosDivisor(x)

\* pos_val_deg < min_val or pos_val_deg > max_val, on the unrounded quotient
\* pos_val_pulses / divisor (divisor > 0), with min and max in hundredths.
OutsideLimits(pulses, x) ==
    \/ pulses * 100 < AXIS_UNITS[x].min * PosDivisor(x)
    \/ pulses * 100 > AXIS_UNITS[x].max * PosDivisor(x)

\* min_val <= pos_val_deg <= max_val
InsideLimits(pulses, x) ==
    /\ AXIS_UNITS[x].min * PosDivisor(x) <= pulses * 100
    /\ pulses * 100 <= AXIS_UNITS[x].max * PosDivisor(x)

\* pos_val_disp: round(pos_val_deg, 2), in hundredths of a degree.
pos_val_disp(pulses, x) == RoundHalfEven(pulses * 100, PosDivisor(x))

\* A level-triggered interlock: it trips on every sample outside the limits.
LimitTrips_LevelTriggered(i, pulses) ==
    OutsideLimits(pulses, AXIS_LETTERS[i])

\* The interlock's first branch (line 765) for a decodable position.
LimitTrips(i, pulses) ==
    OutsideLimits(pulses, AXIS_LETTERS[i]) /\ ~limit_tripped[i]

\* A clearing branch that wants the position strictly inside the limits.
LimitClears_StrictlyInside(i, pulses) ==
    /\ ~LimitTrips(i, pulses)
    /\ limit_tripped[i]
    /\ AXIS_UNITS[AXIS_LETTERS[i]].min * PosDivisor(AXIS_LETTERS[i]) < pulses * 100
    /\ pulses * 100 < AXIS_UNITS[AXIS_LETTERS[i]].max * PosDivisor(AXIS_LETTERS[i])

\* The interlock's second branch (line 785).
LimitClears(i, pulses) ==
    /\ ~LimitTrips(i, pulses)
    /\ limit_tripped[i]
    /\ InsideLimits(pulses, AXIS_LETTERS[i])

\* The sample sequence 10, 185, 185, 90 deg of axis A followed by a second
\* excursion to 185 deg, in pulses.
HystSamples == <<20000, 370000, 370000, 180000, 370000>>

\* Observer: while the decodable samples of servo 1 follow HystSamples from
\* the start of the run it records, per sample, the stop commands sent and
\* whether the limit flag was cleared; n = -1 once the run departs from it.
HystStep(i, pulses, stops, cleared) ==
    IF i # 1 \/ hyst.n = -1 \/ hyst.n = Len(HystSamples) THEN hyst
    ELSE IF pulses = HystSamples[hyst.n + 1]
         THEN [n |-> hyst.n + 1, stops |-> Append(hyst.stops, stops),
               clears |-> Append(hyst.clears, cleared)]
         ELSE [n |-> -1, stops |-> <<>>, clears |-> <<>>]

\* The marker the display shows for an unavailable position ('N/A').
NotAvailable == <<"n/a">>

\* Lines 791-800: the display text after a telemetry event without a valid
\* position, the counter already incremented.
MissText(i, count) ==
    IF count >= 5 THEN NotAvailable
    ELSE IF last_valid_pos[i] # <<>> THEN Num(last_valid_pos[i][1]) ELSE Blank

\* The POSITION_POLL branch of the main loop for the event payload
\* {servo: i, pos_resp}; io is the outcome of the stop command's GCommand.
\* ev records the event and the limit flag the handler found.
PositionPollEvent(i, pos_resp, status_resp, io) ==
    /\ pc = "running"
    /\ ev' = [kind |-> "poll", servo |-> i, pos_resp |-> pos_resp, io |-> io,
              tripped |-> limit_tripped[i], status_resp |-> status_resp,
              indicator |-> status_text[i]]
    /\ IF Decodable(i, pos_resp)
       THEN LET x      == AXIS_LETTERS[i]
                pulses == pos_resp[1]
                trips  == LimitTrips(i, pulses)
                clears == LimitClears(i, pulses)
                sends  == trips /\ comm # "none"
            IN  /\ last_valid_pos' =
                     [last_valid_pos EXCEPT ![i] = <<pos_val_disp(pulses, x)>>]
                /\ invalid_resp_counters' = [invalid_resp_counters EXCEPT ![i] = 0]
                /\ wire' = IF sends THEN <<send_command(Cmd("ST", x, <<>>), io)>>
                           ELSE <<>>
                /\ dialogs' = IF trips
                              THEN (IF sends THEN <<"limit_stop">>
                                    ELSE <<"limit_no_comm">>)
                              ELSE <<>>
                /\ limit_tripped' =
                     [limit_tripped EXCEPT
                        ![i] = IF trips THEN TRUE ELSE IF clears THEN FALSE ELSE @]
                /\ hyst' = HystStep(i, pulses, Len(wire'),
                                     limit_tripped[i] /\ ~limit_tripped'[i])
                /\ actual_pos' =
                     [actual_pos EXCEPT ![i] = Num(pos_val_disp(pulses, x))]
                /\ status_text' =
                     [status_text EXCEPT
                        ![i] = IF sends THEN IndicatorStopped
                               ELSE IF clears /\ ~trips THEN IndicatorEnabled
                               ELSE @]
       ELSE /\ invalid_resp_counters[i] < MaxInvalidRun
            /\ invalid_resp_counters' =
                 [invalid_resp_counters EXCEPT ![i] = @ + 1]
            /\ wire' = <<>>
            /\ dialogs' = <<>>
            /\ actual_pos' =
                 [actual_pos EXCEPT
                    ![i] = MissText(i, invalid_resp_counters'[i])]
            /\ UNCHANGED <<last_valid_pos, limit_tripped, hyst, status_text>>
    /\ Len(message_queue) + Len(QueuedByAll(wire')) <= MaxQueue
    /\ message_queue' = message_queue \o QueuedByAll(wire')
    /\ UNCHANGED <<link, pc, comm, last_setpoints, field_text, nOperator, mode,
                   active_tab>>

\* The handler for an event whose status_resp is not looked at: the events
\* below carry the position reply only.
PositionPoll(i, pos_resp, io) == PositionPollEvent(i, pos_resp, <<>>, io)

\* Position replies of a telemetry event, in pulses.  Axis A: 10, 185 and 90
\* deg, both bounds (0 and 180 deg) and one pulse beyond each, or no reply;
\* axis B: 20 deg and 100 deg (beyond its maximum); axis C: one reply.
InterlockReplies ==
    [i \in Servos |->
        CASE i = 1 -> {<<>>, <<20000>>, <<370000>>, <<180000>>, <<0>>, <<360000>>,
                       <<-1>>, <<360001>>}
          [] i = 2 -> {<<140>>, <<700>>}
          [] i = 3 -> {<<20>>}]

\* The control loop takes one POSITION_POLL event off the event queue.  The
\* polling thread writes events only when it has a comm object (without one it
\* sends no query and all four replies stay None, so step 4 emits nothing).
\* The GCommand outcome is an input only where a stop command is sent.
Telemetry(replies) ==
    \E i \in Servos : \E r \in replies[i] : \E io \in IoOutcomes :
        /\ comm # "none"
        /\ (io = "err" => Decodable(i, r) /\ LimitTrips(i, r[1]))
        /\ PositionPoll(i, r, io)
        /\ UNCHANGED pollVars

\* ------------------------------------------------------ handle_servo_event
\* _last_setpoints[servo - 1].get(field), None while the attribute is missing.
LastSetpoint(i, f) == IF last_setpoints = <<>> THEN <<>> ELSE last_setpoints[i][f]

\* Lines 434-435: the attribute is created on the first call of the handler.
EnsuredSetpoints == IF last_setpoints = <<>> THEN NoSetpoints ELSE last_setpoints

\* Lines 459-463: min_val, max_val of the OK handler.  The keys of an
\* AXIS_UNITS entry are min, max, pulses, degrees, scaling and gearbox.
ConfirmLimits(i, f) ==
    LET x == AXIS_LETTERS[i]
    IN  IF x \in DOMAIN AXIS_UNITS /\ f \in DOMAIN AXIS_UNITS[x]
        THEN <<AXIS_UNITS[x].min, AXIS_UNITS[x].max>>
        ELSE NUMERIC_LIMITS[f]

\* Line 467: the position the relative gate starts from.
current_pos(i) == IF last_valid_pos[i] # <<>> THEN last_valid_pos[i][1] ELSE 0

\* Lines 465-474: the relative-move gate.
RelGateRejects(i, f, value) ==
    /\ f = "rel_pos"
    /\ \/ current_pos(i) + value < ConfirmLimits(i, f)[1]
       \/ current_pos(i) + value > ConfirmLimits(i, f)[2]

\* A range gate that forgets the lower bound.
RangeGateRejects_UpperOnly(i, f, value) == value > ConfirmLimits(i, f)[2]

\* Lines 475-479: the range gate.
RangeGateRejects(i, f, value) ==
    value < ConfirmLimits(i, f)[1] \/ value > ConfirmLimits(i, f)[2]

\* A prompt whose answer is ignored.
Declined_Ignored(confirm) == FALSE

\* Line 487: any answer of popup_ok_cancel but 'OK' cancels.
Declined(confirm) == confirm # "OK"

\* A cancel path that always blanks the field.
RestoredText_Blank(previous_setpoint, original_text) == Blank

\* Lines 488-489: the text the cancel path writes back.
RestoredText(previous_setpoint, original_text) ==
    IF previous_setpoint # <<>> THEN format_display_value(previous_setpoint[1])
    ELSE IF IsNum(original_text) THEN format_display_value(original_text[2])
    ELSE Blank

\* A dispatch that sends the command again after a failed send.
DispatchSetpoint_Retry(cmd, io) ==
    IF send_command(cmd, io).delivered THEN <<send_command(cmd, io)>>
    ELSE <<send_command(cmd, io), send_command(cmd, io)>>

\* Line 518: the one send_command call of the setpoint workflow.
DispatchSetpoint(cmd, io) == <<send_command(cmd, io)>>

\* Lines 526-527: the setpoint stored after send_command returned; the return
\* value is only logged.
StoredSetpoint(sent, value, previous_setpoint) == <<value>>

\* How far the OK handler of field f of servo i gets.
OkStage(i, f, confirm) ==
    LET text  == field_text[i][f]
        value == RoundTenths(text[2])
    IN  IF text = Blank THEN "no_value"
        ELSE IF ~IsNum(text) THEN "invalid"
        ELSE IF RelGateRejects(i, f, value) THEN "limits"
        ELSE IF RangeGateRejects(i, f, value) THEN "range"
        ELSE IF Declined(confirm) THEN "declined"
        ELSE IF AXIS_LETTERS[i] \notin DOMAIN AXIS_UNITS THEN "key_error"
        ELSE IF comm = "none" THEN "no_comm"
        ELSE "send"

\* handle_servo_event for the event S<i>_<f>_ok.  confirm is the operator's
\* answer to the confirmation prompt, io the outcome of GCommand; ev records
\* the event, the values the handler read and the inputs it consumed.
SetpointOk(i, f, confirm, io) ==
    LET text  == field_text[i][f]
        prev  == LastSetpoint(i, f)
        stage == OkStage(i, f, confirm)
        value == RoundTenths(text[2])
        x     == AXIS_LETTERS[i]
        cmd   == Cmd(GALIL_COMMAND_MAP[f], x, <<DegToPulses(value, x)>>)
        asked == stage \in {"declined", "key_error", "no_comm", "send"}
    IN  /\ pc = "running"
        /\ nOperator < MaxOperatorActions
        /\ nOperator' = nOperator + 1
        /\ ev' = [kind |-> "ok", servo |-> i, field |-> f, value |-> text,
                  previous_setpoint |-> prev, current_pos |-> current_pos(i),
                  confirm |-> IF asked THEN confirm ELSE "unasked",
                  io |-> IF stage = "send" THEN io ELSE "unused"]
        /\ pc' = IF stage = "key_error" THEN "crashed" ELSE pc
        /\ field_text' =
             IF stage \in {"no_value", "invalid"} THEN field_text
             ELSE IF stage = "declined"
             THEN [field_text EXCEPT ![i][f] = RestoredText(prev, text)]
             ELSE [field_text EXCEPT ![i][f] = format_display_value(value)]
        /\ dialogs' =
             CASE stage = "no_value" -> <<"error_no_value">>
               [] stage = "invalid"  -> <<"error_invalid">>
               [] stage = "limits"   -> <<"error_limits">>
               [] stage = "range"    -> <<"error_range">>
               [] stage = "no_comm"  -> <<"confirm", "error_no_comm">>
               [] OTHER              -> <<"confirm">>
        /\ wire' = IF stage = "send" THEN DispatchSetpoint(cmd, io) ELSE <<>>
        /\ last_setpoints' =
             IF stage = "send"
             THEN [EnsuredSetpoints EXCEPT
                     ![i][f] = StoredSetpoint(wire', value, prev)]
             ELSE EnsuredSetpoints
        /\ Len(message_queue) + Len(QueuedByAll(wire')) <= MaxQueue
        /\ message_queue' = message_queue \o QueuedByAll(wire')
        /\ UNCHANGED <<link, status_text, comm, last_valid_pos, invalid_resp_counters,
                       limit_tripped, hyst, actual_pos, mode, active_tab>>
        /\ UNCHANGED pollVars

\* The operator presses the OK button of a setpoint field.
PressOk ==
    \E i \in Servos : \E f \in Fields :
        \E confirm \in {"OK", "Cancel"} : \E io \in IoOutcomes :
            SetpointOk(i, f, confirm, io)

\* ------------------------------------------------------ keyboard edit filter
\* Lines 886-897: at most one digit is kept after the decimal point.
KeepOneDecimal(v) == IF v < 0 THEN -((-v) - ((-v) % 10)) ELSE v - (v % 10)

\* Lines 910-914: the limits of the keyboard clamp.
EditLimits(i, f) ==
    LET x == AXIS_LETTERS[i]
    IN  IF x \in DOMAIN AXIS_UNITS /\ f \in {"abs_pos", "rel_pos"}
        THEN <<AXIS_UNITS[x].min, AXIS_UNITS[x].max>>
        ELSE NUMERIC_LIMITS[f]

\* Line 915: round(max(min_val, min(max_val, numeric_val)), 1)
ClampRound(min_val, max_val, numeric_val) ==
    LET m == IF numeric_val > max_val THEN max_val ELSE numeric_val
    IN  RoundTenths(IF m < min_val THEN min_val ELSE m)

Clamped(i, f, v) == ClampRound(EditLimits(i, f)[1], EditLimits(i, f)[2], v)

\* Lines 883-917: the text the edit branch leaves in the widget for the
\* typed text under the limits min_val and max_val.
KeyboardText(min_val, max_val, typed) ==
    IF ~IsNum(typed) THEN typed
    ELSE LET filtered == KeepOneDecimal(typed[2])
         IN  IF ClampRound(min_val, max_val, filtered) # filtered
             THEN format_display_value(ClampRound(min_val, max_val, filtered))
             ELSE Num(filtered)

\* The text the edit branch leaves in the widget S<i>_<f> for the typed text.
EditedText(i, f, typed) ==
    KeyboardText(EditLimits(i, f)[1], EditLimits(i, f)[2], typed)

\* The main loop's branch for a keyboard change of the widget S<i>_<f>.  The
\* events of speed, accel and decel then pass through handle_servo_event,
\* which builds no command for them but creates _last_setpoints.
FieldEdit(i, f, typed) ==
    /\ pc = "running"
    /\ nOperator < MaxOperatorActions
    /\ nOperator' = nOperator + 1
    /\ ev' = [kind |-> "edit", servo |-> i, field |-> f, value |-> typed]
    /\ field_text' = [field_text EXCEPT ![i][f] = EditedText(i, f, typed)]
    /\ last_setpoints' = IF f \in {"speed", "accel", "decel"}
                         THEN EnsuredSetpoints ELSE last_setpoints
    /\ wire' = <<>>
    /\ dialogs' = <<>>
    /\ UNCHANGED <<link, status_text, pc, comm, last_valid_pos, invalid_resp_counters,
                   limit_tripped, hyst, actual_pos, mode, message_queue,
                   active_tab>>
    /\ UNCHANGED pollVars

\* The texts the operator types: servo, field, text.
EditInputs ==
    {<<1, "speed", Num(4567)>>, <<1, "accel", Blank>>, <<1, "decel", Dash>>,
     <<1, "abs_pos", Num(9000)>>, <<1, "abs_pos", Num(20000)>>,
     <<1, "rel_pos", Num(1000)>>,
     <<2, "speed", Num(-20000)>>, <<2, "abs_pos", Num(-3000)>>,
     <<2, "rel_pos", Num(-4500)>>,
     <<3, "abs_pos", Num(4500)>>}

TypeText == \E e \in EditInputs : FieldEdit(e[1], e[2], e[3])

\* Position replies while setpoints are entered: axis A at 100 deg, axis B at
\* -40 deg, both inside their calibrated ranges.
SetpointReplies ==
    [i \in Servos |->
        CASE i = 1 -> {<<200000>>}
          [] i = 2 -> {<<-280>>}
          [] i = 3 -> {}]

\* ------------------------------------------------------- the polling thread
\* The four queries of a cycle, in order: position, torque, status, speed.
PollQueries == <<"MG _RP", "MG _TC", "MG _MO", "MG _SPE">>

\* A thread that makes one more attempt for the position.
RetryBudget_OneMore == <<6, 3, 3, 3>>

\* range(5) for the position, range(3) for the other items.
RetryBudget == <<5, 3, 3, 3>>

\* A parser that takes any queued message for a number.
NumericLine_Any(msg) == IF msg.kind = "number" THEN <<msg.value>> ELSE <<0>>

\* The numeric line of a queued message, None for one without such a line.
\* (The acknowledgements of CommMode1 hold none.)
NumericLine(msg) == IF msg.kind = "number" THEN <<msg.value>> ELSE <<>>

\* The thread moves on to the next item of the cycle, or to step 4.
NextItem(p) ==
    IF p.k < 4 THEN [p EXCEPT !.pc = "send", !.k = p.k + 1, !.tries = 0]
    ELSE [p EXCEPT !.pc = "emit", !.tries = 0]

\* A thread that never looks at the stop flag.
StopObserved_Never == FALSE

\* stop_event.is_set(), as the loop test (line 21) and the retry loops read it.
StopObserved == stop_event

\* Lines 21-48: the loop test, the flush of the reply queue and the choice of
\* the axis of the selected tab.  With the stop flag set the function
\* returns.  Without a comm object step 3 is skipped.
PollCycleBegin ==
    /\ pc = "running"
    /\ poll.pc = "loop_head"
    /\ IF StopObserved
       THEN /\ poll' = [poll EXCEPT !.pc = "done"]
            /\ UNCHANGED <<message_queue, cycle_log>>
       ELSE /\ cycle_log.begun < MaxCycles
            /\ Len(events) < MaxEvents
            /\ message_queue' = <<>>
            /\ poll' = [pc |-> IF comm = "none" THEN "emit" ELSE "send",
                        servo |-> active_tab, k |-> 1, tries |-> 0,
                        resp |-> NoReplies]
            /\ cycle_log' = [cycle_log EXCEPT !.begun = @ + 1,
                                              !.selected = active_tab,
                                              !.queried = <<>>,
                                              !.drained = Len(message_queue),
                                              !.own = NoReplies]
    /\ UNCHANGED <<link, status_text, pc, comm, mode, last_setpoints, field_text, last_valid_pos,
                   invalid_resp_counters, limit_tripped, ev, wire, dialogs,
                   nOperator, hyst, actual_pos, active_tab, stop_event, events>>

\* A thread whose four blocks all assign the position's variable.
ItemSlot_Position(k) == 1

\* The local each block assigns its numeric line to: pos_resp (line 60),
\* torque_resp (87), status_resp (113), speed_resp (139), items 1 to 4.
ItemSlot(k) == k

\* A thread that reads the selected tab again for every query.
axis_letter_Reread(p) == AXIS_LETTERS[active_tab]

\* axis_letter (line 35): the letter of the servo read at the cycle's start.
axis_letter(p) == AXIS_LETTERS[p.servo]

\* Lines 53-61 (and 81-88, 107-114, 133-140): the query of item k.  reply is
\* the numeric line of the controller's answer, <<>> when it has none; a
\* send_command that returns False gives no line either.  Without a line the
\* thread sleeps and enters the retry loop.  at is the thread's position
\* when the call returns.
PollQueryAt(at, reply, io) ==
    LET call == send_command(Cmd(PollQueries[poll.k], axis_letter(poll), <<>>),
                             io)
        line == IF call.delivered THEN reply ELSE <<>>
    IN  /\ pc = "running"
        /\ poll.pc = at
        /\ (io = "err" => reply = <<>>)
        /\ poll' = IF line # <<>>
                   THEN NextItem([poll EXCEPT !.resp[ItemSlot(poll.k)] = line])
                   ELSE [poll EXCEPT !.pc = "retry", !.tries = 0]
        /\ message_queue' = message_queue \o QueuedBy(call)
        /\ cycle_log' = [cycle_log EXCEPT !.queried = Append(@, call.cmd.axis),
                                          !.own[poll.k] = line]
        /\ UNCHANGED <<link, status_text, pc, comm, mode, last_setpoints, field_text,
                       last_valid_pos, invalid_resp_counters, limit_tripped, ev,
                       wire, dialogs, nOperator, hyst, actual_pos, active_tab,
                       stop_event, events>>

\* The query of item k as one step, from the call to its return.
PollQuery(reply, io) == PollQueryAt("send", reply, io)

\* Lines 64-79 (and 91-105, 117-131, 143-157): one pass of the retry loop of
\* item k.  The loop ends when its range is used up or the stop flag is seen;
\* otherwise receive_response(timeout=0.2) takes the head of the reply queue
\* or returns None at the timeout.
PollRetry ==
    /\ pc = "running"
    /\ poll.pc = "retry"
    /\ IF poll.tries = RetryBudget[poll.k] \/ StopObserved
       THEN /\ poll' = NextItem(poll)
            /\ UNCHANGED message_queue
       ELSE LET line == IF message_queue = <<>> THEN <<>>
                        ELSE NumericLine(Head(message_queue))
            IN  /\ message_queue' = IF message_queue = <<>> THEN <<>>
                                    ELSE Tail(message_queue)
                /\ poll' = IF line # <<>>
                           THEN NextItem([poll EXCEPT !.resp[ItemSlot(poll.k)] = line])
                           ELSE [poll EXCEPT !.tries = @ + 1]
    /\ UNCHANGED <<link, status_text, pc, comm, mode, last_setpoints, field_text, last_valid_pos,
                   invalid_resp_counters, limit_tripped, ev, wire, dialogs,
                   nOperator, hyst, actual_pos, active_tab, stop_event, events,
                   cycle_log>>

\* Line 161: the event is written when at least one item got a reply.
Emits(resp) == \E k \in 1..4 : resp[k] # <<>>

\* An event that names the tab selected when the event is written.
active_servo_AtEmit(p) == active_tab

\* active_servo (lines 30-34): the servo of the tab read at the cycle's start.
active_servo(p) == p.servo

\* Lines 160-182: step 4 writes the POSITION_POLL event, then the reply
\* queue is flushed and the thread sleeps before the next loop test.
PollEmit ==
    /\ pc = "running"
    /\ poll.pc = "emit"
    /\ events' = IF Emits(poll.resp)
                 THEN Append(events, [servo |-> active_servo(poll),
                                      axis_letter |-> axis_letter(poll),
                                      pos_resp |-> poll.resp[1]])
                 ELSE events
    /\ message_queue' = IF comm = "none" THEN message_queue ELSE <<>>
    /\ cycle_log' =
         [cycle_log EXCEPT
            !.ended = @ + 1,
            !.own = NoReplies,
            !.emitted = IF Emits(poll.resp) THEN @ + 1 ELSE @,
            !.missed[poll.servo] = IF poll.resp[1] # <<>> THEN 0 ELSE @ + 1]
    /\ poll' = LoopHead
    /\ UNCHANGED <<link, status_text, pc, comm, mode, last_setpoints, field_text, last_valid_pos,
                   invalid_resp_counters, limit_tripped, ev, wire, dialogs,
                   nOperator, hyst, actual_pos, active_tab, stop_event>>

\* The numeric lines the controller may answer the query in hand with: a
\* position in pulses for item 1, a value for the other items, or none.
ItemReplies(replies) ==
    IF poll.pc # "send" THEN {}
    ELSE IF poll.k = 1 THEN replies[poll.servo]
    ELSE {<<>>, <<0>>}

\* One step of the polling thread.
PollingThread(replies) ==
    \/ PollCycleBegin
    \/ \E reply \in ItemReplies(replies) : \E io \in IoOutcomes :
          PollQuery(reply, io)
    \/ PollRetry
    \/ PollEmit

\* Position replies to the polling thread: none, or axis A at 10 deg or at
\* 185 deg, axis B at 20 deg, axis C at 20 pulses.
SessionReplies ==
    [i \in Servos |->
        CASE i = 1 -> {<<>>, <<20000>>, <<370000>>}
          [] i = 2 -> {<<>>, <<140>>}
          [] i = 3 -> {<<>>, <<20>>}]

\* A handler that takes the event for the servo of the selected tab.
EventServo_Selected(data) == active_tab

\* i = data['servo'] (line 723): the servo the handler works on.
EventServo(data) == data.servo

\* The control loop reads the oldest POSITION_POLL event (window.read) and
\* runs its handler.
DeliverPoll ==
    \E io \in IoOutcomes :
        /\ events # <<>>
        /\ (io = "err" => /\ Decodable(EventServo(Head(events)), Head(events).pos_resp)
                          /\ LimitTrips(EventServo(Head(events)),
                                        Head(events).pos_resp[1]))
        /\ PositionPoll(EventServo(Head(events)), Head(events).pos_resp, io)
        /\ events' = Tail(events)
        /\ UNCHANGED <<stop_event, poll, cycle_log>>

\* The operator selects the tab of another servo.
SelectTab ==
    \E i \in Servos \ {active_tab} :
        /\ pc = "running"
        /\ active_tab' = i
        /\ UNCHANGED <<link, status_text, pc, comm, mode, last_setpoints, field_text,
                       last_valid_pos, invalid_resp_counters, limit_tripped, ev,
                       wire, dialogs, nOperator, hyst, actual_pos,
                       message_queue>>
        /\ UNCHANGED pollVars

\* The holder of the Event that start_polling_thread returned sets it.
SetStop ==
    /\ pc = "running"
    /\ ~stop_event
    /\ stop_event' = TRUE
    /\ UNCHANGED <<link, status_text, pc, comm, mode, last_setpoints, field_text, last_valid_pos,
                   invalid_resp_counters, limit_tripped, ev, wire, dialogs,
                   nOperator, hyst, actual_pos, active_tab, message_queue, poll,
                   events, cycle_log>>

\* Lines 715-717 and 956-958: WIN_CLOSED breaks the main loop; the second
\* loop at the end of the file reads the closed window and breaks as well,
\* and the script ends.  Nothing sets the stop flag, joins the polling thread
\* (a daemon thread, it ends with the process) or calls comm.close().
WindowClosed ==
    /\ pc = "running"
    /\ pc' = "exited"
    /\ ev' = [kind |-> "closed"]
    /\ wire' = <<>>
    /\ dialogs' = <<>>
    /\ UNCHANGED <<link, status_text, comm, mode, last_setpoints, field_text, last_valid_pos,
                   invalid_resp_counters, limit_tripped, nOperator, hyst,
                   actual_pos, active_tab, message_queue>>
    /\ UNCHANGED pollVars

\* ---------------------------------------------------------- handle_jog_press
\* Line 643-644: the speed of the field with the sign of the button.
JogSigned(text, direction) == IF direction = "cw" THEN text[2] ELSE -text[2]

\* Lines 646-650: scaling * gearbox (1 for a missing or zero value) and the
\* bounds of the axis, the abs_pos defaults without an AXIS_UNITS entry.
JogPulsesPerDeg(i) ==
    LET x == AXIS_LETTERS[i]
    IN  IF x \in DOMAIN AXIS_UNITS
        THEN (IF AXIS_UNITS[x].scaling = 0 THEN 1 ELSE AXIS_UNITS[x].scaling)
             * (IF AXIS_UNITS[x].gearbox = 0 THEN 1 ELSE AXIS_UNITS[x].gearbox)
        ELSE 1

JogLimits(i) ==
    LET x == AXIS_LETTERS[i]
    IN  IF x \in DOMAIN AXIS_UNITS THEN <<AXIS_UNITS[x].min, AXIS_UNITS[x].max>>
        ELSE NUMERIC_LIMITS["abs_pos"]

\* A pre-check that lets a jog start from the upper bound itself.
JogBlocked_BeyondOnly(i, signed_speed) ==
    /\ last_valid_pos[i] # <<>>
    /\ signed_speed > 0
    /\ last_valid_pos[i][1] > JogLimits(i)[2]

\* Lines 657-660: the jog is refused at or beyond the upper bound.
JogBlocked(i, signed_speed) ==
    /\ last_valid_pos[i] # <<>>
    /\ signed_speed > 0
    /\ last_valid_pos[i][1] >= JogLimits(i)[2]

\* A creep allowance of 20% of the maximum speed.
JogCreep_Fifth(i, signed_speed) ==
    IF last_valid_pos[i] # <<>> /\ signed_speed < 0
       /\ last_valid_pos[i][1] <= JogLimits(i)[1]
    THEN LET cap == NUMERIC_LIMITS["speed"][2] \div 5
         IN  IF -signed_speed < cap THEN signed_speed ELSE -cap
    ELSE signed_speed

\* Lines 661-664: at or below the lower bound a jog further down is capped
\* to max_speed_limit * 0.1.
JogCreep(i, signed_speed) ==
    IF last_valid_pos[i] # <<>> /\ signed_speed < 0
       /\ last_valid_pos[i][1] <= JogLimits(i)[1]
    THEN LET cap == NUMERIC_LIMITS["speed"][2] \div 10
         IN  IF -signed_speed < cap THEN signed_speed ELSE -cap
    ELSE signed_speed

\* Line 666: int(round(signed_speed * scaling * gearbox)).
JogPulses(i, signed_speed) ==
    RoundHalfEven(signed_speed * JogPulsesPerDeg(i), 100)

\* A jog that takes the last confirmed speed instead of the field's text.
speed_str_Confirmed(i) ==
    IF LastSetpoint(i, "speed") = <<>> THEN Blank
    ELSE Num(LastSetpoint(i, "speed")[1])

\* Line 633: speed_str, the speed field's text in the event's values.
speed_str(i) == field_text[i]["speed"]

\* How far handle_jog_press gets.
JogStage(i, direction, is_press) ==
    LET text == speed_str(i)
    IN  IF comm = "none" THEN "no_comm"
        ELSE IF ~IsNum(text) THEN "no_speed"
        ELSE IF JogBlocked(i, JogSigned(text, direction)) THEN "blocked"
        ELSE IF is_press THEN "press" ELSE "release"

\* The JOG_PRESS branch of the main loop: handle_jog_press for the payload
\* (i, direction, is_press).  A press sends JG<axis>=<pulses>;BG<axis> as one
\* command (opcode "JG" below), a release sends ST<axis>.
JogPress(i, direction, is_press, io) ==
    LET text  == speed_str(i)
        stage == JogStage(i, direction, is_press)
        x     == AXIS_LETTERS[i]
        speed == JogCreep(i, JogSigned(text, direction))
    IN  /\ pc = "running"
        /\ nOperator < MaxOperatorActions
        /\ nOperator' = nOperator + 1
        /\ ev' = [kind |-> "jog", servo |-> i, direction |-> direction,
                  is_press |-> is_press, speed |-> field_text[i]["speed"],
                  current_pos |-> last_valid_pos[i],
                  setpoints |-> last_setpoints, texts |-> field_text,
                  io |-> IF stage \in {"press", "release"} THEN io ELSE "unused"]
        /\ wire' =
             CASE stage = "press" ->
                    <<send_command(Cmd("JG", x, <<JogPulses(i, speed)>>), io)>>
               [] stage = "release" -> <<send_command(Cmd("ST", x, <<>>), io)>>
               [] OTHER -> <<>>
        /\ dialogs' = IF stage = "blocked" THEN <<"jog_blocked">> ELSE <<>>
        /\ Len(message_queue) + Len(QueuedByAll(wire')) <= MaxQueue
        /\ message_queue' = message_queue \o QueuedByAll(wire')
        /\ UNCHANGED <<link, status_text, pc, comm, last_setpoints, field_text, last_valid_pos,
                       invalid_resp_counters, limit_tripped, hyst, actual_pos,
                       mode, active_tab>>
        /\ UNCHANGED pollVars

\* The operator presses or releases a jog button.
JogButton ==
    \E i \in Servos : \E direction \in {"cw", "ccw"} :
        \E is_press \in BOOLEAN : \E io \in IoOutcomes :
            JogPress(i, direction, is_press, io)

\* The commands of the direct buttons (lines 170-173).
DirectOpcodes == [enable |-> "SH", disable |-> "MO", start |-> "BG", stop |-> "ST"]

\* A disable button that sends the disable command before the stop command.
DirectCalls_DisableFirst(i, action, io_stop, io) ==
    LET x == AXIS_LETTERS[i]
    IN  IF comm = "none" THEN <<>>
        ELSE IF action = "disable"
        THEN <<send_command(Cmd(DirectOpcodes[action], x, <<>>), io),
               send_command(Cmd("ST", x, <<>>), io_stop)>>
        ELSE <<send_command(Cmd(DirectOpcodes[action], x, <<>>), io)>>

\* The send_command calls of a direct button: the command, after a stop
\* command for the disable button (lines 589-596); none without a comm
\* object.
DirectCalls(i, action, io_stop, io) ==
    LET x == AXIS_LETTERS[i]
    IN  IF comm = "none" THEN <<>>
        ELSE IF action = "disable"
        THEN <<send_command(Cmd("ST", x, <<>>), io_stop),
               send_command(Cmd(DirectOpcodes[action], x, <<>>), io)>>
        ELSE <<send_command(Cmd(DirectOpcodes[action], x, <<>>), io)>>

\* handle_servo_event for the events S<i>_enable, _disable, _start and
\* _stop (lines 419-435 and 542-619): the handler creates _last_setpoints
\* when missing, sends the button's command and, for enable and disable,
\* sets the indicator whatever the reply; without a comm object it shows an
\* error popup.
DirectButton(i, action, io_stop, io) ==
    /\ pc = "running"
    /\ nOperator < MaxOperatorActions
    /\ nOperator' = nOperator + 1
    /\ (action # "disable" \/ comm = "none" => io_stop = "ok")
    /\ (comm = "none" => io = "ok")
    /\ ev' = [kind |-> "button", servo |-> i, action |-> action,
              io_stop |-> io_stop, io |-> io,
              setpoints |-> last_setpoints, texts |-> field_text,
              indicator |-> status_text[i]]
    /\ last_setpoints' = EnsuredSetpoints
    /\ wire' = DirectCalls(i, action, io_stop, io)
    /\ dialogs' = IF comm = "none" THEN <<"error_no_comm">> ELSE <<>>
    /\ status_text' =
         IF comm = "none" THEN status_text
         ELSE CASE action = "enable"  -> [status_text EXCEPT ![i] = IndicatorEnabled]
                [] action = "disable" -> [status_text EXCEPT ![i] = IndicatorDisabled]
                [] OTHER -> status_text
    /\ Len(message_queue) + Len(QueuedByAll(wire')) <= MaxQueue
    /\ message_queue' = message_queue \o QueuedByAll(wire')
    /\ UNCHANGED <<link, pc, comm, field_text, last_valid_pos,
                   invalid_resp_counters, limit_tripped, hyst, actual_pos, mode,
                   active_tab>>
    /\ UNCHANGED pollVars

\* The operator clicks a direct button.
PressDirect ==
    \E i \in Servos : \E action \in DOMAIN DirectOpcodes :
        \E io_stop \in IoOutcomes : \E io \in IoOutcomes :
            DirectButton(i, action, io_stop, io)

\* The speed fields the operator jogs with, as seeded at startup: 10 deg/s on
\* every axis; 25 deg/s on axis A and -20 deg/s on axis B; or the speed of
\* axis A alone, which leaves the speed fields of the other axes blank.
JogSeeds ==
    {[i \in Servos |-> FullSeed(i)],
     [i \in Servos |->
        CASE i = 1 -> [FullSeed(1) EXCEPT !["speed"] = <<50000>>]
          [] i = 2 -> [FullSeed(2) EXCEPT !["speed"] = <<-140>>]
          [] i = 3 -> FullSeed(3)],
     [i \in Servos |-> IF i = 1 THEN SpeedOnlySeed ELSE NoSeed]}

\* Position replies while the operator jogs.  Axis A: 100 deg, both bounds
\* (0 and 180 deg) and -1 deg; axis B: its lower bound (-45 deg) and 100 deg, beyond its
\* upper bound.
JogReplies ==
    [i \in Servos |->
        CASE i = 1 -> {<<200000>>, <<0>>, <<360000>>, <<-2000>>}
          [] i = 2 -> {<<-315>>, <<700>>}
          [] i = 3 -> {}]

\* ------------------------------------------------- ControllerComm as a library
Modes == {"CommMode1", "CommMode2", "CommMode3"}

\* What the constructor leaves behind in each mode.  CommMode1: it raises
\* (no gclib package, no address: "none"), GOpen fails (gclib = None:
\* "failed") or the connection opens.  CommMode2: _init_serial never raises;
\* without pyserial, without a port or when Serial() raises, ser = None
\* ("failed").  CommMode3: creating or binding the socket raises ("none"), or
\* the socket is bound, with ip1 and port1 configured ("open") or not
\* ("no_endpoint").
Established(m) ==
    CASE m = "CommMode1" -> {"none", "failed", "open"}
      [] m = "CommMode2" -> {"failed", "open"}
      [] m = "CommMode3" -> {"none", "no_endpoint", "open"}

\* _init_serial starts the reader thread once the port is open (lines
\* 135-138); _init_udp only creates and binds the socket (lines 206-213).
ReaderStarted ==
    IF mode = "CommMode2" /\ comm = "open" THEN "running" ELSE "none"

\* A client such as test_comm.py holding the object the constructor made.
InitTransport ==
    /\ pc = "client"
    /\ mode \in Modes
    /\ comm \in Established(mode)
    /\ link = [NoLink EXCEPT !.reader = ReaderStarted]
    /\ InitWindow

\* A send_command whose failure paths are not wrapped in try/except.
SendResult_Unguarded(call) ==
    IF call.delivered
    THEN (IF mode = "CommMode1" /\ CommandPrefix(call.cmd.op) \in query_prefixes
          THEN "reply" ELSE "True")
    ELSE IF comm = "failed" THEN "raised" ELSE "False"

\* The value send_command returns: the reply text of a CommMode1 query, True
\* for any other command that went out, False from the except clause (lines
\* 259-261) and from the serial branch without a port (line 242).
SendResult(call) ==
    IF call.delivered
    THEN (IF mode = "CommMode1" /\ CommandPrefix(call.cmd.op) \in query_prefixes
          THEN "reply" ELSE "True")
    ELSE "False"

\* The client calls send_command(cmd).
TransportSend(cmd, io) ==
    LET call == send_command(cmd, io)
    IN  /\ pc = "client"
        /\ comm # "none"
        /\ Len(message_queue) + Len(QueuedBy(call)) <= MaxQueue
        /\ wire' = <<call>>
        /\ message_queue' = message_queue \o QueuedBy(call)
        /\ ev' = [kind |-> "send", cmd |-> cmd, io |-> io, handle |-> comm,
                  queued_before |-> Len(message_queue),
                  result |-> SendResult(call)]
        /\ UNCHANGED <<pc, comm, mode, link>>

\* A line or a datagram of the device, by its number.
DeviceLine(n) == [kind |-> "line", id |-> n]

\* The device sends a message over the open port or to the bound socket; it
\* waits in the operating system's buffer until the program reads it.
DeviceSends ==
    /\ pc = "client"
    /\ mode \in {"CommMode2", "CommMode3"} /\ comm = "open"
    /\ link.sent < MaxDeviceMessages
    /\ link' = [link EXCEPT !.sent = @ + 1, !.inbound = Append(@, link.sent + 1)]
    /\ UNCHANGED <<pc, comm, mode, message_queue, wire, ev>>

\* _serial_receiver: one turn of the reader thread of CommMode2.  With data
\* waiting it reads a line and puts it on the queue; when in_waiting or
\* readline raises (io = "err") the thread leaves its loop for good.
SerialReceiver(io) ==
    /\ pc = "client"
    /\ mode = "CommMode2" /\ comm = "open" /\ link.reader = "running"
    /\ IF io = "err"
       THEN /\ link' = [link EXCEPT !.reader = "ended"]
            /\ UNCHANGED message_queue
       ELSE /\ link.inbound # <<>>
            /\ message_queue' = Append(message_queue, DeviceLine(Head(link.inbound)))
            /\ link' = [link EXCEPT !.inbound = Tail(@)]
    /\ UNCHANGED <<pc, comm, mode, wire, ev>>

\* receive_response(timeout): the head of the queue, or None at the timeout.
TransportReceive ==
    /\ pc = "client"
    /\ comm # "none"
    /\ wire' = <<>>
    /\ ev' = [kind |-> "receive", handle |-> comm,
              result |-> IF message_queue = <<>> THEN <<>>
                         ELSE <<Head(message_queue)>>]
    /\ message_queue' = IF message_queue = <<>> THEN <<>> ELSE Tail(message_queue)
    /\ link' = IF message_queue # <<>> /\ Head(message_queue).kind = "line"
               THEN [link EXCEPT !.returned = Append(@, Head(message_queue).id)]
               ELSE link
    /\ UNCHANGED <<pc, comm, mode>>

\* Whether close() raises.  CommMode3: socket.close() never does.  CommMode2:
\* ser.close() on a port, a print without one.  CommMode1: hasattr(self,
\* 'gclib') holds for every constructed object, so with gclib = None the
\* call None.GClose() raises AttributeError; on a handle GClose raises when
\* the library reports an error (io = "err").
CloseRaises(io) ==
    mode = "CommMode1" /\ (comm = "failed" \/ io = "err")

\* The handle after close().
ClosedHandle(io) ==
    IF CloseRaises(io) \/ comm = "failed" THEN comm ELSE "closed"

\* The client calls close().
TransportClose(io) ==
    /\ pc = "client"
    /\ comm # "none"
    /\ (io = "err" => mode = "CommMode1" /\ comm # "failed")
    /\ wire' = <<>>
    /\ ev' = [kind |-> "close", handle |-> comm, io |-> io,
              raised |-> CloseRaises(io)]
    /\ comm' = ClosedHandle(io)
    /\ link' = IF link.reader = "running" THEN [link EXCEPT !.reader = "ended"]
               ELSE link
    /\ UNCHANGED <<pc, mode, message_queue>>

\* The commands of the client: a query and a command that is not one.
ClientCommands == {Cmd("MG _RP", "A", <<>>), Cmd("ST", "A", <<>>)}

\* Frame of the library calls: no window, no polling thread.
windowVars == <<last_setpoints, field_text, last_valid_pos, invalid_resp_counters,
                limit_tripped, dialogs, nOperator, hyst, actual_pos, active_tab,
                status_text>>

NextTransport ==
    \/ \E cmd \in ClientCommands : \E io \in IoOutcomes :
          TransportSend(cmd, io) /\ UNCHANGED windowVars /\ UNCHANGED pollVars
    \/ DeviceSends /\ UNCHANGED windowVars /\ UNCHANGED pollVars
    \/ \E io \in IoOutcomes :
          SerialReceiver(io) /\ UNCHANGED windowVars /\ UNCHANGED pollVars
    \/ TransportReceive /\ UNCHANGED windowVars /\ UNCHANGED pollVars
    \/ \E io \in IoOutcomes :
          TransportClose(io) /\ UNCHANGED windowVars /\ UNCHANGED pollVars

SpecTransport == InitTransport /\ [][NextTransport]_vars

\* The library with its threads scheduled: the reader thread keeps taking
\* turns, the device's messages arrive, and the client keeps calling
\* receive_response.
ReaderTurn == SerialReceiver("ok") /\ UNCHANGED windowVars /\ UNCHANGED pollVars

ClientReceives == TransportReceive /\ UNCHANGED windowVars /\ UNCHANGED pollVars

SpecReceive ==
    InitTransport /\ [][NextTransport]_vars
    /\ WF_vars(ReaderTurn) /\ WF_vars(ClientReceives)

\* ------------------------------------------------------- numeric extraction
\* A reply text is the sequence of its lines (str.splitlines), a line the
\* sequence of its characters.
DigitChars == {"0", "1", "2", "3", "4", "5", "6", "7", "8", "9"}

RECURSIVE lstrip(_)
\* str.strip(), for blanks.
lstrip(line) ==
    IF line # <<>> /\ Head(line) = " " THEN lstrip(Tail(line)) ELSE line

RECURSIVE rstrip(_)
rstrip(line) ==
    IF line # <<>> /\ line[Len(line)] = " "
    THEN rstrip(SubSeq(line, 1, Len(line) - 1)) ELSE line

strip(line) == rstrip(lstrip(line))

\* re.fullmatch of the pattern -?\d{1,int_digits}\.\d+$ of the position,
\* torque and speed items.
fullmatch(line, int_digits) ==
    LET body == IF line # <<>> /\ Head(line) = "-" THEN Tail(line) ELSE line
    IN  \E k \in 1..Len(body) :
            /\ body[k] = "."
            /\ k - 1 >= 1 /\ k - 1 <= int_digits
            /\ Len(body) - k >= 1
            /\ \A j \in (1..Len(body)) \ {k} : body[j] \in DigitChars

\* The {1,7} of the position pattern (lines 58 and 72).
PositionDigits == 7

RECURSIVE FirstMatch(_)
\* Lines 56-61: the first stripped line the pattern matches, None without one.
FirstMatch(lines) ==
    IF lines = <<>> THEN <<>>
    ELSE IF fullmatch(strip(Head(lines)), PositionDigits)
    THEN <<strip(Head(lines))>>
    ELSE FirstMatch(Tail(lines))

\* The lines a controller's reply text is made of here: an empty line, the
\* ':' acknowledgement, the '?' of a rejected command, decimals with one,
\* seven and eight digits before the point, a decimal between blanks, an
\* integer, and digits with nothing before or after the point.
ReplyLines ==
    {<<>>, <<":">>, <<"?">>,
     <<"1", ".", "5">>, <<"-", "1", ".", "5">>, <<" ", "2", ".", "0", " ">>,
     <<"1", "2", "3", "4", "5", "6", "7", ".", "0">>,
     <<"1", "2", "3", "4", "5", "6", "7", "8", ".", "0">>,
     <<"1", "2">>, <<"1", ".">>, <<".", "5">>}

RawReplies == UNION {[1..n -> ReplyLines] : n \in 0..MaxLines}

\* The controller's reply text to the position query arrives.
ReplyArrives ==
    \E raw \in RawReplies :
        /\ pc = "parser"
        /\ ev.kind = "none"
        /\ ev' = [kind |-> "reply", raw |-> raw]
        /\ UNCHANGED <<pc, comm, mode, wire, message_queue, link>>

\* Lines 53-61: the thread extracts pos_resp from the reply text.
Extract ==
    /\ pc = "parser"
    /\ ev.kind = "reply"
    /\ ev' = [kind |-> "extracted", raw |-> ev.raw, pos_resp |-> FirstMatch(ev.raw)]
    /\ UNCHANGED <<pc, comm, mode, wire, message_queue, link>>

InitParse ==
    /\ pc = "parser"
    /\ mode = "CommMode1"
    /\ comm = "open"
    /\ link = NoLink
    /\ InitWindow

NextParse ==
    \/ ReplyArrives /\ UNCHANGED windowVars /\ UNCHANGED pollVars
    \/ Extract /\ UNCHANGED windowVars /\ UNCHANGED pollVars

SpecParse == InitParse /\ [][NextParse]_vars

\* ---------------------------------------------------------- specifications
\* The soft-limit interlock: startup, then telemetry events only.
NextInterlock == Startup(FullSeeds) \/ Telemetry(InterlockReplies)

SpecInterlock == Init /\ [][NextInterlock]_vars

\* The control loop with the operator: startup, edits and OK presses, and
\* telemetry events in between.
Next ==
    \/ Startup(SetpointSeeds)
    \/ Telemetry(SetpointReplies)
    \/ TypeText
    \/ PressOk

Spec == Init /\ [][Next]_vars

\* The program with its polling thread: startup, the thread's cycles, the
\* control loop reading their events, tab changes and the window's close.
NextSession ==
    \/ Startup(FullSeeds)
    \/ PollingThread(SessionReplies)
    \/ DeliverPoll
    \/ SelectTab
    \/ WindowClosed

SpecSession == Init /\ [][NextSession]_vars

\* The polling thread and the holder of its stop flag.  The thread is an
\* operating-system thread of its own: it keeps being scheduled.
NextPolling ==
    \/ Startup(FullSeeds)
    \/ PollingThread(SessionReplies)
    \/ DeliverPoll
    \/ SetStop

SpecPolling ==
    Init /\ [][NextPolling]_vars /\ WF_vars(PollingThread(SessionReplies))

\* The polling thread next to an operator who holds and lets go of the
\* clockwise jog button of the selected tab: the jog commands put their
\* acknowledgements on the reply queue at any point of a cycle.
DrainReplies ==
    [i \in Servos |-> IF i = 1 THEN {<<>>, <<20000>>} ELSE {<<>>}]

JogClockwise ==
    \E is_press \in BOOLEAN : \E io \in IoOutcomes :
        JogPress(active_tab, "cw", is_press, io)

NextDrain ==
    \/ Startup(FullSeeds)
    \/ PollingThread(DrainReplies)
    \/ DeliverPoll
    \/ JogClockwise

SpecDrain == Init /\ [][NextDrain]_vars

\* The enable indication: the startup seeding with each axis reporting motor
\* on (0.0), motor off (1.0) or nothing, then telemetry events for axes A
\* and B, at 100 deg and 20 deg, whose status_resp is 0.0, 1.0, 2.0 or
\* absent (in thousandths).
StatusSeeds ==
    {[i \in Servos |-> [FullSeed(i) EXCEPT !["status"] = st[i]]] :
        st \in [Servos -> {<<>>, <<0>>, <<1000>>}]}

StatusReplies == {<<>>, <<0>>, <<1000>>, <<2000>>}

StatusTelemetry ==
    \E i \in {1, 2} : \E status_resp \in StatusReplies :
        /\ comm # "none"
        /\ PositionPollEvent(i, IF i = 1 THEN <<200000>> ELSE <<140>>,
                             status_resp, "ok")
        /\ UNCHANGED pollVars

NextStatus == Startup(StatusSeeds) \/ StatusTelemetry

SpecStatus == Init /\ [][NextStatus]_vars

\* The direct buttons and the jog buttons next to the speed field: startup,
\* a speed typed into the field of axis A or B, and the buttons.
SpeedInputs == {<<1, "speed", Num(4567)>>, <<2, "speed", Num(-2000)>>}

TypeSpeed == \E e \in SpeedInputs : FieldEdit(e[1], e[2], e[3])

ButtonSeeds ==
    {[i \in Servos |-> FullSeed(i)],
     [i \in Servos |-> IF i = 1 THEN SpeedOnlySeed ELSE NoSeed]}

NextButtons ==
    \/ Startup(ButtonSeeds)
    \/ TypeSpeed
    \/ PressDirect
    \/ JogButton

SpecButtons == Init /\ [][NextButtons]_vars

\* The jog buttons: startup, telemetry events and jog events.
NextJog ==
    \/ Startup(JogSeeds)
    \/ Telemetry(JogReplies)
    \/ JogButton

SpecJog == Init /\ [][NextJog]_vars

\* ------------------------------------------------------------ zero position
\* The axes of the controller's comma-separated argument lists.
AxisSlots == 8

\* A list with a ',' in every place.
dp_args_AllCommas(servo_num) == [k \in 1..AxisSlots |-> ","]

\* dp_args of the Zero Position branch (lines 811-812): a list of eight ','
\* in which the place of the servo is replaced by '0'.
dp_args(servo_num) == [[k \in 1..AxisSlots |-> ","] EXCEPT ![servo_num] = "0"]

\* dp_cmd (line 813): 'DP ' followed by the joined list, as characters.
dp_cmd(servo_num) == <<"D", "P", " ">> \o dp_args(servo_num)

\* The Zero Position button of a servo (lines 807-820): the command is sent
\* when there is a comm object; the response is only printed.
ZeroPosition(i, io) ==
    /\ pc = "running"
    /\ nOperator < MaxOperatorActions
    /\ nOperator' = nOperator + 1
    /\ (comm = "none" => io = "ok")
    /\ ev' = [kind |-> "zero_pos", servo |-> i, io |-> io]
    /\ wire' = IF comm = "none" THEN <<>>
               ELSE <<send_command([op |-> "DP", axis |-> "", arg |-> <<>>,
                                    text |-> dp_cmd(i)], io)>>
    /\ dialogs' = <<>>
    /\ Len(message_queue) + Len(QueuedByAll(wire')) <= MaxQueue
    /\ message_queue' = message_queue \o QueuedByAll(wire')
    /\ UNCHANGED <<link, status_text, pc, comm, last_setpoints, field_text,
                   last_valid_pos, invalid_resp_counters, limit_tripped, hyst,
                   actual_pos, mode, active_tab>>
    /\ UNCHANGED pollVars

\* The operator clicks the Zero Position button of one of the eight tabs.
PressZero == \E i \in 1..AxisSlots : \E io \in IoOutcomes : ZeroPosition(i, io)

\* The buttons of the servo tabs that send without a setpoint: startup, the
\* Zero Position button and the direct buttons.
NextZero ==
    \/ Startup(ButtonSeeds)
    \/ PressZero
    \/ PressDirect

SpecZero == Init /\ [][NextZero]_vars

\* --------------------------------------------------------- command encoding
\* AXIS_LETTERS in full (line 167) and the ten actions of a servo tab that
\* the command maps have an entry for (lines 170-179).
AllAxisLetters == <<"A", "B", "C", "D", "E", "F", "G", "H">>

MapActions ==
    {"enable", "disable", "start", "stop", "jog", "speed", "accel", "decel",
     "abs_pos", "rel_pos"}

\* The actions whose entry is a function of a value (a lambda); the entries
\* of the others are finished strings.
CallableActions == {"jog", "speed", "accel", "decel", "abs_pos", "rel_pos"}

RECURSIVE Digits(_)
\* The decimal digits of a natural number.
Digits(n) ==
    IF n < 10 THEN <<<<"0", "1", "2", "3", "4", "5", "6", "7", "8", "9">>[n + 1]>>
    ELSE Digits(n \div 10) \o Digits(n % 10)

\* str(value) of an integer, as the f-strings of the maps format it.
FormatInt(value) == IF value < 0 THEN <<"-">> \o Digits(-value) ELSE Digits(value)

\* A lambda that reads the loop variable when it is called.
BoundAxis_Late(at_definition, at_call) == at_call

\* The axis a map's lambda formats: the default argument axis=axis_letter is
\* evaluated when the lambda is defined (lines 174-179), not when it is called.
BoundAxis(at_definition, at_call) == at_definition

\* The two letters of each entry of GALIL_COMMAND_MAP (lines 170-179).
GalilLetters ==
    [a \in MapActions |->
        CASE a = "enable"  -> <<"S", "H">>
          [] a = "disable" -> <<"M", "O">>
          [] a = "start"   -> <<"B", "G">>
          [] a = "stop"    -> <<"S", "T">>
          [] a = "jog"     -> <<"J", "G">>
          [] a = "speed"   -> <<"S", "P">>
          [] a = "accel"   -> <<"A", "C">>
          [] a = "decel"   -> <<"D", "C">>
          [] a = "abs_pos" -> <<"P", "A">>
          [] a = "rel_pos" -> <<"P", "R">>]

\* The command text of the entry S<i>_<action> of GALIL_COMMAND_MAP for a
\* value, once the loop of lines 168-179 has ended with its variable at
\* loop_i.
GalilCommand(i, action, value, loop_i) ==
    IF action \notin CallableActions
    THEN GalilLetters[action] \o <<AllAxisLetters[i]>>
    ELSE LET axis == AllAxisLetters[BoundAxis(i, loop_i)]
             set  == GalilLetters[action] \o <<axis, "=">> \o FormatInt(value)
         IN  IF action = "jog" THEN set \o <<";", "B", "G", axis>> ELSE set

\* The words of each entry of CLEARCORE_COMMAND_MAP
\* (ControllerGUI_backup.py lines 74-85).
ClearCoreWords ==
    [a \in MapActions |->
        CASE a = "enable"  -> <<"E", "N", "A", "B", "L", "E", "_", "S", "E", "R", "V", "O", "_">>
          [] a = "disable" -> <<"D", "I", "S", "A", "B", "L", "E", "_", "S", "E", "R", "V", "O", "_">>
          [] a = "start"   -> <<"S", "T", "A", "R", "T", "_", "M", "O", "T", "I", "O", "N", "_">>
          [] a = "stop"    -> <<"S", "T", "O", "P", "_", "M", "O", "T", "I", "O", "N", "_">>
          [] a = "jog"     -> <<"J", "O", "G", "_", "S", "E", "R", "V", "O", "_">>
          [] a = "speed"   -> <<"S", "E", "T", "_", "S", "P", "E", "E", "D", "_">>
          [] a = "accel"   -> <<"S", "E", "T", "_", "A", "C", "C", "E", "L", "_">>
          [] a = "decel"   -> <<"S", "E", "T", "_", "D", "E", "C", "E", "L", "_">>
          [] a = "abs_pos" -> <<"S", "E", "T", "_", "A", "B", "S", "_", "P", "O", "S", "_">>
          [] a = "rel_pos" -> <<"S", "E", "T", "_", "R", "E", "L", "_", "P", "O", "S", "_">>]

\* The command text of the entry S<i>_<action> of CLEARCORE_COMMAND_MAP.
ClearCoreCommand(i, action, value, loop_i) ==
    IF action \notin CallableActions
    THEN ClearCoreWords[action] \o FormatInt(i)
    ELSE ClearCoreWords[action] \o FormatInt(BoundAxis(i, loop_i))
            \o <<"_">> \o FormatInt(value)

\* The values the entries are called with: pulses of either sign and zero.
EncodeValues == {0, -250, 180000}

\* The iterations of the loop that have run.
MapsBuilt == IF ev.kind = "none" THEN 0 ELSE ev.built

\* The loop that fills the maps runs one more of its eight iterations.
MapLoop ==
    /\ pc = "encoder"
    /\ ev.kind \in {"none", "maps"}
    /\ MapsBuilt < Len(AllAxisLetters)
    /\ ev' = [kind |-> "maps", built |-> MapsBuilt + 1]
    /\ UNCHANGED <<pc, comm, mode, wire, message_queue, link>>

\* A caller looks up the entry of an action of a servo and, when it is
\* callable, calls it with a value (lines 504-508 and 576-580).
Encode(i, action, value) ==
    /\ pc = "encoder"
    /\ MapsBuilt = Len(AllAxisLetters)
    /\ ev' = [kind |-> "encoded", built |-> MapsBuilt, servo |-> i,
              action |-> action, value |-> value,
              galil |-> GalilCommand(i, action, value, MapsBuilt),
              clearcore |-> ClearCoreCommand(i, action, value, MapsBuilt)]
    /\ UNCHANGED <<pc, comm, mode, wire, message_queue, link>>

InitEncode ==
    /\ pc = "encoder"
    /\ mode = "CommMode1"
    /\ comm = "open"
    /\ link = NoLink
    /\ InitWindow

NextEncode ==
    \/ MapLoop /\ UNCHANGED windowVars /\ UNCHANGED pollVars
    \/ \E i \in 1..Len(AllAxisLetters) : \E action \in MapActions :
         \E value \in EncodeValues :
            Encode(i, action, value) /\ UNCHANGED windowVars /\ UNCHANGED pollVars

SpecEncode == InitEncode /\ [][NextEncode]_vars

\* ------------------------------------------------ keyboard clamp, any limits
\* The limits the edit branch clamps to, in hundredths of a degree: the
\* defaults of NUMERIC_LIMITS, the calibrations of axes A and B, and a
\* calibration whose min and max of the configuration file have two
\* decimals (0.25 and 90.26 deg).
ClampLimits ==
    {NUMERIC_LIMITS[f] : f \in Fields}
        \cup {<<AXIS_UNITS[x].min, AXIS_UNITS[x].max>> : x \in DOMAIN AXIS_UNITS}
        \cup {<<25, 9026>>}

\* The texts typed into the field: blank, a lone sign, and numbers below,
\* at, inside and above the limits, with one and with two decimals.
TypedTexts ==
    {Blank, Dash} \cup
    {Num(v) : v \in {-20000, -18000, -9010, -9000, -4510, -4500, -4499, -1234,
                     -15, -10, -5, 0, 5, 10, 20, 25, 29, 30, 1234, 1239, 4500,
                     8999, 9000, 9010, 9020, 9026, 9029, 9030, 17990, 18000,
                     18001, 18010, 20000}}

\* The edit branch handles a keyboard change of a field whose limits are
\* min_val and max_val (lines 881-924).
KeyboardEdit(min_val, max_val, typed) ==
    /\ pc = "filter"
    /\ ev' = [kind |-> "keyboard", min_val |-> min_val, max_val |-> max_val,
              typed |-> typed, text |-> KeyboardText(min_val, max_val, typed)]
    /\ UNCHANGED <<pc, comm, mode, wire, message_queue, link>>

InitClamp ==
    /\ pc = "filter"
    /\ mode = "CommMode1"
    /\ comm = "open"
    /\ link = NoLink
    /\ InitWindow

NextClamp ==
    \E limits \in ClampLimits : \E typed \in TypedTexts :
        KeyboardEdit(limits[1], limits[2], typed)
            /\ UNCHANGED windowVars /\ UNCHANGED pollVars

SpecClamp == InitClamp /\ [][NextClamp]_vars

\* ------------------------------------------------- send_command, call and return
\* send_command takes no lock (communications.py lines 215-261) and the
\* polling thread is a thread of its own (ControllerPolling.py line 189), so
\* a call of either thread lasts from its entry to its return while the other
\* thread runs on.  The position "in_send" of the polling thread and the
\* event kind "in_send" of the control loop say that the thread is inside
\* send_command, between the call and the return of GCommand.

\* The polling thread calls send_command for the query of item k.
PollSendEnters ==
    /\ pc = "running"
    /\ poll.pc = "send"
    /\ poll' = [poll EXCEPT !.pc = "in_send"]
    /\ UNCHANGED <<link, status_text, pc, comm, mode, last_setpoints, field_text,
                   last_valid_pos, invalid_resp_counters, limit_tripped, ev,
                   wire, dialogs, nOperator, hyst, actual_pos, active_tab,
                   message_queue, stop_event, events, cycle_log>>

\* The call returns to the polling thread with the reply or with False.
PollSendReturns ==
    \E reply \in {<<>>, <<0>>} : \E io \in IoOutcomes :
        PollQueryAt("in_send", reply, io)

\* The operator clicks a direct button of the selected tab; the handler
\* calls send_command for its first command (lines 586-596).
ButtonSendEnters ==
    \E action \in DOMAIN DirectOpcodes :
        /\ pc = "running"
        /\ comm # "none"
        /\ ev.kind # "in_send"
        /\ nOperator < MaxOperatorActions
        /\ ev' = [kind |-> "in_send", servo |-> active_tab, action |-> action]
        /\ wire' = <<>>
        /\ dialogs' = <<>>
        /\ UNCHANGED <<link, status_text, pc, comm, mode, last_setpoints,
                       field_text, last_valid_pos, invalid_resp_counters,
                       limit_tripped, nOperator, hyst, actual_pos, active_tab,
                       message_queue>>
        /\ UNCHANGED pollVars

\* The handler's calls return and the handler runs to its end.
ButtonSendReturns ==
    /\ ev.kind = "in_send"
    /\ \E io_stop \in IoOutcomes : \E io \in IoOutcomes :
          DirectButton(ev.servo, ev.action, io_stop, io)

\* The control loop, when it is not inside a handler, reads a telemetry event.
LoopReadsEvent == ev.kind # "in_send" /\ DeliverPoll

NextOverlap ==
    \/ Startup(FullSeeds)
    \/ PollCycleBegin
    \/ PollSendEnters
    \/ PollSendReturns
    \/ PollRetry
    \/ PollEmit
    \/ ButtonSendEnters
    \/ ButtonSendReturns
    \/ LoopReadsEvent

SpecOverlap == Init /\ [][NextOverlap]_vars

\* ------------------------------------------------ claims: safety interlock
\* The calibrated range of a servo and its pulses per degree, read from the
\* configuration alone.
HasCalibration(i) == AXIS_LETTERS[i] \in DOMAIN AXIS_UNITS

CalMin(i) == AXIS_UNITS[AXIS_LETTERS[i]].min

CalMax(i) == AXIS_UNITS[AXIS_LETTERS[i]].max

CalPulsesPerDeg(i) ==
    AXIS_UNITS[AXIS_LETTERS[i]].scaling * AXIS_UNITS[AXIS_LETTERS[i]].gearbox

\* The last event was a telemetry event with a decodable position.
PolledPosition == ev.kind = "poll" /\ ev.pos_resp # <<>> /\ HasCalibration(ev.servo)

\* That position, as degrees * 100 * pulses-per-degree, against the bounds.
PolledBelowMin == ev.pos_resp[1] * 100 < CalMin(ev.servo) * CalPulsesPerDeg(ev.servo)

PolledAboveMax == ev.pos_resp[1] * 100 > CalMax(ev.servo) * CalPulsesPerDeg(ev.servo)

PolledAtBound ==
    \/ ev.pos_resp[1] * 100 = CalMin(ev.servo) * CalPulsesPerDeg(ev.servo)
    \/ ev.pos_resp[1] * 100 = CalMax(ev.servo) * CalPulsesPerDeg(ev.servo)

\* The stop commands for servo i among the handler's sends.
StopsSent(i) ==
    Cardinality({k \in 1..Len(wire) :
                    wire[k].cmd = Cmd("ST", AXIS_LETTERS[i], <<>>)})

\* C1: a telemetry event issues a stop command for its axis exactly when its
\* position is decodable and outside [min,max] while limitTripped was false,
\* and then limitTripped is true; no other event sends a stop, so none is
\* repeated while the axis stays out of range.  Over the samples 10, 185, 185,
\* 90 of axis A exactly one stop is sent, at the second sample.
C1_EdgeTriggeredStop ==
    /\ ev.kind = "poll" =>
         LET trips == /\ PolledPosition
                      /\ PolledBelowMin \/ PolledAboveMax
                      /\ ~ev.tripped
         IN  /\ trips => StopsSent(ev.servo) = 1 /\ limit_tripped[ev.servo]
             /\ ~trips => StopsSent(ev.servo) = 0
             /\ Len(wire) = StopsSent(ev.servo)
    /\ hyst.n >= 4 => SubSeq(hyst.stops, 1, 4) = <<0, 1, 0, 0>>

\* The four samples were handled and the one stop went out at the second.
C1_Witness ==
    /\ hyst.n = 4
    /\ hyst.stops = <<0, 1, 0, 0>>
    /\ comm = "open"

\* C9: a decodable position inside [min,max], bounds included, that arrives
\* while limitTripped is true clears the flag on that event; a later excursion
\* trips again with one new stop.  Over 10, 185, 185, 90 there is exactly one
\* recovery, at the sample 90, and the following 185 sends one new stop.
C9_ClearOnReentry ==
    /\ (PolledPosition /\ ~PolledBelowMin /\ ~PolledAboveMax /\ ev.tripped)
         => ~limit_tripped[ev.servo]
    /\ (PolledPosition /\ ~ev.tripped /\ limit_tripped[ev.servo])
         => StopsSent(ev.servo) = 1
    /\ hyst.n >= 4 => SubSeq(hyst.clears, 1, 4) = <<FALSE, FALSE, FALSE, TRUE>>
    /\ hyst.n = 5 => hyst.stops[5] = 1 /\ ~hyst.clears[5]

\* The axis recovered at 90 deg and tripped again on the next excursion.
C9_Witness ==
    /\ hyst.n = 5
    /\ hyst.clears = <<FALSE, FALSE, FALSE, TRUE, FALSE>>
    /\ PolledPosition /\ ev.servo = 1 /\ StopsSent(1) = 1

\* C10: a position exactly at min or exactly at max never sets limitTripped
\* and never causes a stop command, and it clears limitTripped when it is set.
C10_InclusiveBounds ==
    (PolledPosition /\ PolledAtBound) => wire = <<>> /\ ~limit_tripped[ev.servo]

\* A sample exactly at a bound arrived while the flag was set and cleared it.
C10_Witness ==
    /\ PolledPosition /\ PolledAtBound
    /\ ev.tripped
    /\ ~limit_tripped[ev.servo]

\* ---------------------------------------------- claims: setpoint workflow
\* The last event was an OK press on a field that held a number.
OkPressed == ev.kind = "ok" /\ IsNum(ev.value)

\* The value the OK handler works with: the text rounded to one decimal.
OkValue == RoundTenths(ev.value[2])

\* The commands of the setpoint workflow.
SetpointOpcodes == {"SP", "AC", "DC", "PA", "PR"}

SetpointSends == {k \in 1..Len(wire) : wire[k].cmd.op \in SetpointOpcodes}

\* C2: every absolute-position command of the setpoint workflow carries a
\* degree value inside the calibrated [min,max] of its axis, and the range
\* gate rejects an absolute position of a calibrated axis only when it lies
\* outside that calibrated range.
C2_AbsPosWithinCalibration ==
    (OkPressed /\ ev.field = "abs_pos" /\ HasCalibration(ev.servo)) =>
        /\ SetpointSends # {} =>
             CalMin(ev.servo) <= OkValue /\ OkValue <= CalMax(ev.servo)
        /\ dialogs = <<"error_range">> =>
             OkValue < CalMin(ev.servo) \/ OkValue > CalMax(ev.servo)

C4_RelativeGate ==
    (OkPressed /\ ev.field = "rel_pos" /\ HasCalibration(ev.servo)) =>
        LET target == ev.current_pos + OkValue
            inside == CalMin(ev.servo) <= target /\ target <= CalMax(ev.servo)
        IN  /\ ~inside => wire = <<>> /\ dialogs[1] # "confirm"
            /\ inside => dialogs # <<"error_limits">>

\* C5: a setpoint command is sent only by an OK press whose value passed the
\* validation gates and whose confirmation prompt, shown in that same
\* handler, the operator accepted; it is the command of that axis and field.
C5_ConfirmGate ==
    SetpointSends # {} =>
        /\ OkPressed
        /\ ev.confirm = "OK"
        /\ dialogs = <<"confirm">>
        /\ NUMERIC_LIMITS[ev.field][1] <= OkValue
        /\ OkValue <= NUMERIC_LIMITS[ev.field][2]
        /\ ev.field = "rel_pos" =>
             /\ NUMERIC_LIMITS[ev.field][1] <= ev.current_pos + OkValue
             /\ ev.current_pos + OkValue <= NUMERIC_LIMITS[ev.field][2]
        /\ \A k \in SetpointSends :
             /\ wire[k].cmd.axis = AXIS_LETTERS[ev.servo]
             /\ wire[k].cmd.op = GALIL_COMMAND_MAP[ev.field]

\* 90.0 deg was accepted for axis A and went out as PA A = 180000.
C5_Witness ==
    /\ OkPressed /\ ev.confirm = "OK"
    /\ wire = <<[cmd |-> Cmd("PA", "A", <<180000>>), delivered |-> TRUE]>>

\* The last event was an OK press whose confirmation prompt was declined.
OkDeclined == OkPressed /\ ev.confirm = "Cancel"

\* C6 as claimed: on a declined prompt nothing is sent, lastConfirmedSetpoint
\* is unchanged, and the field shows the last confirmed value when one exists
\* and is blank when none exists.
C6_DeclineRestoresOrBlanks ==
    OkDeclined =>
        /\ wire = <<>>
        /\ LastSetpoint(ev.servo, ev.field) = ev.previous_setpoint
        /\ field_text[ev.servo][ev.field] =
             IF ev.previous_setpoint # <<>>
             THEN Num(RoundTenths(ev.previous_setpoint[1]))
             ELSE Blank

\* C6 as amended: when no confirmed value exists the field keeps the entered
\* value, rounded to one decimal.
C6_DeclineRestoresOrKeeps ==
    OkDeclined =>
        /\ wire = <<>>
        /\ LastSetpoint(ev.servo, ev.field) = ev.previous_setpoint
        /\ field_text[ev.servo][ev.field] =
             IF ev.previous_setpoint # <<>>
             THEN Num(RoundTenths(ev.previous_setpoint[1]))
             ELSE Num(OkValue)

\* A prompt was declined on a field that differs from its confirmed value,
\* and the field is back at the confirmed value.
C6_Witness ==
    /\ OkDeclined
    /\ ev.previous_setpoint # <<>>
    /\ OkValue # RoundTenths(ev.previous_setpoint[1])
    /\ field_text[ev.servo][ev.field] = Num(RoundTenths(ev.previous_setpoint[1]))

\* C7: lastConfirmedSetpoint becomes the new value only if the transport
\* delivered the command; after a failed send it keeps its previous value.
C7_StoredOnlyIfDelivered ==
    (OkPressed /\ SetpointSends # {}) =>
        \A k \in SetpointSends :
            ~wire[k].delivered =>
                LastSetpoint(ev.servo, ev.field) = ev.previous_setpoint

\* C8: one accepted confirmation causes at most one send of the setpoint
\* command, delivered or not, and no event but an OK press sends one.
C8_AtMostOneSend ==
    /\ ev.kind = "ok" => Len(wire) <= 1
    /\ ev.kind # "ok" => SetpointSends = {}

\* An accepted setpoint whose send failed went to the transport once.
C8_Witness ==
    /\ OkPressed /\ ev.confirm = "OK"
    /\ Len(wire) = 1
    /\ ~wire[1].delivered

\* ---------------------------------------------------------- claims: jog
\* The last event was a jog event with a numeric speed field on an axis whose
\* last valid position is known.
JogWithPosition ==
    ev.kind = "jog" /\ IsNum(ev.speed) /\ ev.current_pos # <<>>
        /\ HasCalibration(ev.servo)

\* The requested jog speed: the field's value, negated by the CCW button.
JogRequested == IF ev.direction = "cw" THEN ev.speed[2] ELSE -ev.speed[2]

JogCommandsSent == {k \in 1..Len(wire) : wire[k].cmd.op = "JG"}

\* C12: a jog request in the position-increasing direction is rejected, with
\* no jog command sent, whenever the axis's last valid position is at or
\* beyond its upper bound.
C12_JogUpBlocked ==
    (JogWithPosition /\ JogRequested > 0
        /\ ev.current_pos[1] >= CalMax(ev.servo))
    => (JogCommandsSent = {} /\ dialogs = <<"jog_blocked">>)

\* A jog press upwards with the axis exactly at its upper bound.
C12_Witness ==
    /\ JogWithPosition /\ ev.is_press /\ JogRequested > 0
    /\ ev.current_pos[1] = CalMax(ev.servo)
    /\ comm = "open"
    /\ wire = <<>>

\* 10% of the maximum configured speed, in hundredths of a degree per second.
CreepLimit == NUMERIC_LIMITS["speed"][2] \div 10

EstablishmentFailed == {"failed", "no_endpoint"}

\* C18: after a connection-establishment failure every later send on that
\* transport returns a failure result and never raises to the caller, in each
\* of the three transport modes; nothing goes out and nothing is queued.
C18_FailedSendReturnsFalse ==
    (ev.kind = "send" /\ ev.handle \in EstablishmentFailed)
    => /\ ev.result = "False"
       /\ \A k \in 1..Len(wire) : ~wire[k].delivered

\* A send on the CommMode1 object whose GOpen failed, after an earlier call.
C18_Witness ==
    /\ ev.kind = "send" /\ ev.handle = "failed" /\ mode = "CommMode1"
    /\ ev.result = "False"
    /\ ev.cmd = Cmd("ST", "A", <<>>)

\* C20: close() is idempotent and safe after partial initialization failure:
\* called once or several times on a transport in any state, including one
\* whose connection never opened, it never raises and leaves the transport
\* closed (no open handle).
C20_CloseNeverRaises ==
    ev.kind = "close" => (~ev.raised /\ comm # "open" /\ comm # "no_endpoint")

\* ------------------------------------------------ claims: the polling thread
\* C15: every polling cycle, whatever replies were or were not received,
\* emits exactly one TelemetryEvent for the polled axis (stated for a program
\* whose connection is open).
C15_OneEventPerCycle == comm = "open" => cycle_log.emitted = cycle_log.ended

\* C14: for each axis the consecutive-invalid counter equals the number of
\* telemetry cycles without a valid position since the last valid position
\* (stated for a program whose connection is open, when the control loop has
\* read every event written so far).
C14_CounterCountsMisses ==
    (comm = "open" /\ events = <<>>) =>
        \A i \in Servos :
            HasCalibration(i) => invalid_resp_counters[i] = cycle_log.missed[i]

\* C17: on every exit path of the control loop the stop flag is set, the
\* polling thread has ended, and the Transport is closed.
C17_OrderlyShutdown ==
    pc = "exited" =>
        /\ stop_event
        /\ poll.pc = "done"
        /\ comm \in {"none", "closed"}

\* C16: once the stop flag is set the polling loop starts no new cycle, a
\* retry loop that runs again issues no further receive but ends, and the
\* polling thread terminates (every receive it makes returns at its timeout).
C16_StopEndsPolling ==
    /\ [][stop_event => cycle_log'.begun = cycle_log.begun]_vars
    /\ [][(stop_event /\ poll.pc = "retry" /\ poll' # poll)
            => (poll'.pc # "retry" /\ message_queue' = message_queue)]_vars
    /\ (stop_event ~> (poll.pc = "done"))

\* The flag is set, at least one cycle has run, and the thread has returned.
C16_Witness ==
    /\ stop_event /\ poll.pc = "done"
    /\ cycle_log.begun >= 1 /\ cycle_log.ended = cycle_log.begun

\* ------------------------------------------------ claims: degraded startup
\* C19: when the transport could not be established (no transport object, or
\* an object whose connection failed to open) startup seeding and the control
\* loop still run: no unhandled error stops the program.
C19_DegradedModeKeepsRunning ==
    (comm \in {"none", "failed"} /\ ev.kind = "startup") => pc = "running"

\* ------------------------------------------------------------- C21
\* A send_command call of the direct-command mode, and the number of entries
\* it added to the reply queue.
DirectSend == ev.kind = "send" /\ mode = "CommMode1"

QueueGrowth == Len(message_queue) - ev.queued_before

IsQuery(cmd) == CommandPrefix(cmd.op) \in query_prefixes

\* C21 as stated: in the direct-command mode every query returns its reply
\* inline and adds nothing to the reply queue, and every other command
\* returns no reply payload and adds exactly one reply to the queue.
C21_DirectModeReplies ==
    DirectSend =>
        IF IsQuery(ev.cmd)
        THEN ev.result = "reply" /\ QueueGrowth = 0
        ELSE ev.result # "reply" /\ QueueGrowth = 1

\* C21 amended: the above holds for a command the controller executed; a
\* command that failed (no connection, or GCommand raised) returns False
\* and adds nothing to the queue, query or not.
C21_DirectModeRepliesWhenExecuted ==
    DirectSend =>
        IF ev.handle = "open" /\ ev.io = "ok"
        THEN (IF IsQuery(ev.cmd)
              THEN ev.result = "reply" /\ QueueGrowth = 0
              ELSE ev.result = "True" /\ QueueGrowth = 1)
        ELSE ev.result = "False" /\ QueueGrowth = 0

C21_Witness ==
    /\ DirectSend /\ ev.handle = "open" /\ ev.io = "ok"
    /\ ~IsQuery(ev.cmd) /\ ev.result = "True" /\ QueueGrowth = 1

\* ------------------------------------------------------------- C22
RECURSIVE Increasing(_)
\* A sequence of message numbers in the order the device sent them.
Increasing(q) ==
    Len(q) < 2 \/ (q[1] < q[2] /\ Increasing(Tail(q)))

Returned(n) == \E k \in 1..Len(link.returned) : link.returned[k] = n

\* The client closed the transport, or the serial port failed under the
\* reader.
LinkLost == comm # "open" \/ link.reader = "ended"

\* C22: in the serial and the datagram mode every message the device sends
\* once the transport is open is eventually returned by receive_response
\* (as long as the transport stays open and the port does not fail), and the
\* messages are returned in the order they arrived.
C22_DeviceMessagesReturned ==
    /\ [](mode \in {"CommMode2", "CommMode3"} => Increasing(link.returned))
    /\ \A n \in 1..MaxDeviceMessages :
          (mode \in {"CommMode2", "CommMode3"} /\ link.sent >= n)
              ~> (Returned(n) \/ LinkLost)

\* ------------------------------------------------------------- C23
\* The axis of the tab that was selected when the cycle in hand began.
AxisAtCycleStart == AXIS_LETTERS[cycle_log.selected]

\* C23: every query of a polling cycle goes to the axis that was selected
\* when the cycle began, so a cycle that begins after the operator selected
\* another axis queries that axis only, and no cycle queries two axes.
C23_QueriesSelectedAxis ==
    \A k \in 1..Len(cycle_log.queried) : cycle_log.queried[k] = AxisAtCycleStart

\* The operator left the first tab, a later cycle began and issued its four
\* queries, and meanwhile the operator selected yet another tab.
C23_Witness ==
    /\ cycle_log.begun >= 2
    /\ cycle_log.selected # 1
    /\ Len(cycle_log.queried) = 4
    /\ active_tab # cycle_log.selected

\* ------------------------------------------------------------- C24
\* Steps of the polling thread: a cycle begins, a cycle ends (step 4 to the
\* sleep), and a retry pass takes its item's value from a queued reply.
CycleBegins == poll.pc = "loop_head" /\ poll'.pc \in {"send", "emit"}

CycleEnds == poll.pc = "emit" /\ poll'.pc = "loop_head"

TakenFromQueue == poll.pc = "retry" /\ poll'.resp # poll.resp

\* C24: with a comm object, the step that begins a cycle leaves the reply
\* queue empty before the first query, the step that ends it leaves the
\* queue empty again, and no reply that sits in the queue (queued before the
\* cycle's first query or in between) becomes a telemetry value of the cycle.
C24_StaleRepliesDiscarded ==
    /\ [][comm # "none" /\ CycleBegins => message_queue' = <<>>]_vars
    /\ [][comm # "none" /\ CycleEnds => message_queue' = <<>>]_vars
    /\ [][~TakenFromQueue]_vars

\* A cycle whose first flush discarded a queued reply, in a retry loop with
\* another reply queued since.
C24_Witness ==
    /\ cycle_log.drained > 0
    /\ poll.pc = "retry"
    /\ message_queue # <<>>

\* ------------------------------------------------------------- C25
\* The receive attempts the claim allows per item: position, torque, status,
\* speed.
AttemptLimit == <<5, 3, 3, 3>>

InCycle == poll.pc \in {"send", "retry", "emit"}

\* C25: in a retry loop the thread has made at most 5 receive attempts for
\* the position and at most 3 for torque, status and speed, and a cycle
\* that began reaches its end (or the thread's return), whatever replies do
\* or do not come.
C25_CyclesTerminate ==
    /\ [](poll.pc = "retry" => poll.tries <= AttemptLimit[poll.k])
    /\ (InCycle ~> ~InCycle)

\* A cycle that used up every attempt of every item and ended without any
\* reply.
C25_Witness ==
    /\ comm = "open"
    /\ poll.pc = "retry" /\ poll.k = 4 /\ poll.tries = AttemptLimit[4]
    /\ poll.resp = NoReplies

\* ------------------------------------------------------------- C26
\* The last confirmed setpoint of a field in a _last_setpoints value, and
\* whether the field's text is pending against it (set_pending_highlight).
Confirmed(setpoints, i, f) == IF setpoints = <<>> THEN <<>> ELSE setpoints[i][f]

IsPending(setpoints, texts, i, f) ==
    /\ IsNum(texts[i][f])
    /\ Confirmed(setpoints, i, f) # <<texts[i][f][2]>>

DirectOrJog ==
    \/ ev.kind = "button" /\ ev.action \in {"enable", "disable"}
    \/ ev.kind = "jog"

\* A jog press that the handler does not refuse or slow down: a speed in the
\* field, a comm object, and no known position.
PlainJogPress ==
    /\ ev.kind = "jog" /\ ev.is_press /\ IsNum(ev.texts[ev.servo]["speed"])
    /\ comm # "none" /\ ev.current_pos = <<>>

LivePulses ==
    LET i      == ev.servo
        speed  == ev.texts[i]["speed"][2]
        signed == IF ev.direction = "cw" THEN speed ELSE -speed
        factor == IF HasCalibration(i) THEN CalPulsesPerDeg(i) ELSE 1
    IN  RoundHalfEven(signed * factor, 100)

\* C26: the enable and disable buttons and jog show no confirmation prompt
\* and send their command in the handler itself (with a comm object); they
\* leave the last confirmed setpoint and the pending state of every (axis,
\* field) as they were; and a jog press carries the speed of the speed
\* field's text, confirmed or not.
C26_DirectCommandsBypassConfirm ==
    DirectOrJog =>
        /\ \A k \in 1..Len(dialogs) : dialogs[k] # "confirm"
        /\ \A i \in Servos : \A f \in Fields :
              /\ Confirmed(last_setpoints, i, f) = Confirmed(ev.setpoints, i, f)
              /\ IsPending(last_setpoints, field_text, i, f)
                    = IsPending(ev.setpoints, ev.texts, i, f)
        /\ (ev.kind = "button" /\ comm # "none") =>
              /\ wire # <<>>
              /\ wire[Len(wire)].cmd =
                    Cmd(IF ev.action = "enable" THEN "SH" ELSE "MO",
                        AXIS_LETTERS[ev.servo], <<>>)
        /\ PlainJogPress =>
              /\ Len(wire) = 1
              /\ wire[1].cmd = Cmd("JG", AXIS_LETTERS[ev.servo], <<LivePulses>>)

\* A jog press on axis A at the 45.6 deg/s typed into the speed field (the
\* text 45.67 keeps one decimal) while the confirmed speed is 10 deg/s:
\* JGA=91200.
C26_Witness ==
    /\ PlainJogPress /\ ev.servo = 1 /\ ev.direction = "cw"
    /\ ev.texts[1]["speed"] = Num(4560)
    /\ Confirmed(last_setpoints, 1, "speed") = <<1000>>
    /\ wire = <<[cmd |-> Cmd("JG", "A", <<91200>>), delivered |-> TRUE]>>

\* ------------------------------------------------------------- C27
\* A step of the running polling thread.
ThreadStep == poll.pc # "not_started" /\ poll' # poll

\* C27: the polling thread writes none of the control loop's state, and it
\* reads none of it either: what it learns comes from the transport and its
\* stop flag only, so the axis it polls cannot follow a selection the
\* operator makes at the console and stays the axis of the first tab.
C27_ThreadIsolated ==
    /\ [][ThreadStep => UNCHANGED <<last_valid_pos, invalid_resp_counters,
                                     limit_tripped, last_setpoints, field_text,
                                     active_tab>>]_vars
    /\ [](poll.pc \notin {"not_started", "loop_head", "done"}
            => poll.servo = FirstTab)

\* ------------------------------------------------------------- C28
\* What a status value (in thousandths) decides: within 0.01 of 0.0 the axis
\* is enabled, within 0.01 of 1.0 it is disabled, anything else is nothing
\* to go by.
Decides(reply) ==
    IF reply = <<>> THEN "nothing"
    ELSE IF reply[1] > -10 /\ reply[1] < 10 THEN "enabled"
    ELSE IF reply[1] > 990 /\ reply[1] < 1010 THEN "disabled"
    ELSE "nothing"

IndicationAfter(reply, before, after) ==
    CASE Decides(reply) = "enabled"  -> after = IndicatorEnabled
      [] Decides(reply) = "disabled" -> after = IndicatorDisabled
      [] OTHER -> after = before

\* C28: after the startup seeding and after every telemetry event (with the
\* axis inside its limits), the indication of the axis is Enabled for a
\* status reply within 0.01 of 0.0, Disabled for one within 0.01 of 1.0, and
\* what it was before for any other value and for an absent reply.
C28_StatusDecides ==
    /\ (ev.kind = "startup" /\ pc = "running") =>
          \A i \in Servos :
              IndicationAfter(ev.status[i], IndicatorInitial, status_text[i])
    /\ ev.kind = "poll" =>
          IndicationAfter(ev.status_resp, ev.indicator, status_text[ev.servo])

\* ------------------------------------------------------------- C29
\* A signed decimal with a fractional part: an optional minus sign, digits,
\* a point, digits.
SignedDecimal(line) ==
    LET body == IF line # <<>> /\ Head(line) = "-" THEN Tail(line) ELSE line
    IN  \E k \in 2..(Len(body) - 1) :
            /\ body[k] = "."
            /\ \A j \in (1..Len(body)) \ {k} : body[j] \in DigitChars

\* A line without its leading and trailing blanks.
Trimmed(line) ==
    LET inner == {k \in 1..Len(line) : line[k] # " "}
    IN  IF inner = {} THEN <<>>
        ELSE LET lo == CHOOSE k \in inner : \A m \in inner : k <= m
                 hi == CHOOSE k \in inner : \A m \in inner : k >= m
             IN  SubSeq(line, lo, hi)

DecimalLines(raw) == {k \in 1..Len(raw) : SignedDecimal(Trimmed(raw[k]))}

\* C29: numeric extraction returns nothing for the empty reply and for the
\* lone ':' token, and otherwise the first line that is a signed decimal
\* with a fractional part, whatever its magnitude and whatever lines come
\* before it; nothing only when no line has that form.
C29_FirstDecimalLine ==
    ev.kind = "extracted" =>
        IF DecimalLines(ev.raw) = {} THEN ev.pos_resp = <<>>
        ELSE LET first == CHOOSE k \in DecimalLines(ev.raw) :
                              \A m \in DecimalLines(ev.raw) : k <= m
             IN  ev.pos_resp = <<Trimmed(ev.raw[first])>>

\* ------------------------------------------------------------- C30
\* C30: every command the setpoint workflow sends for a value carries
\* round(value * scaling * gearbox) pulses of its axis's calibration; an
\* absolute position of 90.0 on axis A (scaling 500, gearbox 4) goes out as
\* PA for axis A with 180000.
C30_PulsesOfCalibration ==
    OkPressed =>
        /\ \A k \in SetpointSends :
              /\ wire[k].cmd.axis = AXIS_LETTERS[ev.servo]
              /\ wire[k].cmd.arg =
                    <<RoundHalfEven(OkValue * CalPulsesPerDeg(ev.servo), 100)>>
        /\ (ev.servo = 1 /\ ev.field = "abs_pos" /\ OkValue = 9000) =>
              \A k \in SetpointSends : wire[k].cmd = Cmd("PA", "A", <<180000>>)

\* The operator confirmed 90.0 in the absolute position field of axis A and
\* the command went out.
C30_Witness ==
    /\ OkPressed /\ ev.servo = 1 /\ ev.field = "abs_pos" /\ OkValue = 9000
    /\ wire = <<[cmd |-> Cmd("PA", "A", <<180000>>), delivered |-> TRUE]>>

\* ------------------------------------------------- claims: zero position
RECURSIVE Slots(_)
\* The comma-separated slots of an argument text.
Slots(chars) ==
    IF \A k \in 1..Len(chars) : chars[k] # "," THEN <<chars>>
    ELSE LET first == CHOOSE k \in 1..Len(chars) :
                          /\ chars[k] = ","
                          /\ \A j \in 1..(k - 1) : chars[j] # ","
         IN  <<SubSeq(chars, 1, first - 1)>>
               \o Slots(SubSeq(chars, first + 1, Len(chars)))

\* The argument text of a sent command text: what follows 'DP '.
ArgumentsOf(text) == SubSeq(text, 4, Len(text))

\* C31: the zero-position command of axis k is 'DP ' followed by exactly
\* eight comma-separated slots, of which slot k holds 0 and the other seven
\* are empty.
C31_ZeroOneSlot ==
    (ev.kind = "zero_pos" /\ comm # "none") =>
        /\ Len(wire) = 1
        /\ wire[1].cmd.op = "DP"
        /\ SubSeq(wire[1].cmd.text, 1, 3) = <<"D", "P", " ">>
        /\ LET slots == Slots(ArgumentsOf(wire[1].cmd.text))
           IN  /\ Len(slots) = AxisSlots
               /\ \A k \in 1..Len(slots) :
                      slots[k] = IF k = ev.servo THEN <<"0">> ELSE <<>>

C31_Witness ==
    /\ ev.kind = "zero_pos"
    /\ ev.servo = 8
    /\ Len(wire) = 1
    /\ wire[1].delivered
    /\ wire[1].cmd.text = <<"D", "P", " ", ",", ",", ",", ",", ",", ",", ",", "0">>

\* ----------------------------------------------- claims: command encoding
\* A signed decimal integer.
SignedInteger(text) ==
    LET body == IF text # <<>> /\ Head(text) = "-" THEN Tail(text) ELSE text
    IN  body # <<>> /\ \A k \in 1..Len(body) : body[k] \in DigitChars

\* The opcode of each action in the direct/serial protocol and the word of
\* each action in the datagram protocol, as the command tables list them.
DirectOpcodeOf ==
    [enable |-> <<"S", "H">>, disable |-> <<"M", "O">>, start |-> <<"B", "G">>,
     stop |-> <<"S", "T">>, jog |-> <<"J", "G">>, speed |-> <<"S", "P">>,
     accel |-> <<"A", "C">>, decel |-> <<"D", "C">>, abs_pos |-> <<"P", "A">>,
     rel_pos |-> <<"P", "R">>]

DatagramWordOf ==
    [enable |-> <<"E", "N", "A", "B", "L", "E", "_", "S", "E", "R", "V", "O", "_">>, disable |-> <<"D", "I", "S", "A", "B", "L", "E", "_", "S", "E", "R", "V", "O", "_">>,
     start |-> <<"S", "T", "A", "R", "T", "_", "M", "O", "T", "I", "O", "N", "_">>, stop |-> <<"S", "T", "O", "P", "_", "M", "O", "T", "I", "O", "N", "_">>,
     jog |-> <<"J", "O", "G", "_", "S", "E", "R", "V", "O", "_">>, speed |-> <<"S", "E", "T", "_", "S", "P", "E", "E", "D", "_">>,
     accel |-> <<"S", "E", "T", "_", "A", "C", "C", "E", "L", "_">>, decel |-> <<"S", "E", "T", "_", "D", "E", "C", "E", "L", "_">>,
     abs_pos |-> <<"S", "E", "T", "_", "A", "B", "S", "_", "P", "O", "S", "_">>, rel_pos |-> <<"S", "E", "T", "_", "R", "E", "L", "_", "P", "O", "S", "_">>]

\* Text t begins with text p.
StartsWith(t, p) == Len(t) >= Len(p) /\ SubSeq(t, 1, Len(p)) = p

\* What follows the first n characters of a text.
After(t, n) == SubSeq(t, n + 1, Len(t))

\* The direct/serial template of an action for an axis letter: the opcode
\* and the letter; then '=' and the value for the setpoint actions; and for
\* the jog '=', the speed and ';BG' with the letter.
MatchesDirect(t, letter, action, value) ==
    /\ StartsWith(t, DirectOpcodeOf[action] \o <<letter>>)
    /\ LET rest == After(t, 3)
       IN  CASE action \in {"enable", "disable", "start", "stop"} -> rest = <<>>
             [] action = "jog" ->
                  /\ Len(rest) > 5
                  /\ Head(rest) = "="
                  /\ SubSeq(rest, 2, Len(rest) - 4) = FormatInt(value)
                  /\ After(rest, Len(rest) - 4) = <<";", "B", "G", letter>>
             [] OTHER -> rest # <<>> /\ Head(rest) = "=" /\ Tail(rest) = FormatInt(value)

\* The datagram template of an action for an axis number: the word and the
\* number; then '_' and the value for the jog and the setpoint actions.
MatchesDatagram(t, n, action, value) ==
    /\ StartsWith(t, DatagramWordOf[action] \o FormatInt(n))
    /\ LET rest == After(t, Len(DatagramWordOf[action]) + 1)
       IN  IF action \in {"enable", "disable", "start", "stop"} THEN rest = <<>>
           ELSE rest # <<>> /\ Head(rest) = "_" /\ Tail(rest) = FormatInt(value)

\* The commands of the eight axes and ten actions for one value.
AllDirect(value) ==
    {GalilCommand(i, a, value, Len(AllAxisLetters)) :
        i \in 1..Len(AllAxisLetters), a \in MapActions}

AllDatagram(value) ==
    {ClearCoreCommand(i, a, value, Len(AllAxisLetters)) :
        i \in 1..Len(AllAxisLetters), a \in MapActions}

\* C32: the command of an axis and an action for a value matches the
\* action's template for that axis in both protocols, and for that value the
\* 8 axes times 10 actions give 80 pairwise distinct commands in the
\* direct/serial protocol and 80 in the datagram protocol.
C32_EncodingInjective ==
    ev.kind = "encoded" =>
        /\ MatchesDirect(ev.galil, AllAxisLetters[ev.servo], ev.action, ev.value)
        /\ MatchesDatagram(ev.clearcore, ev.servo, ev.action, ev.value)
        /\ ev.galil \in AllDirect(ev.value)
        /\ ev.clearcore \in AllDatagram(ev.value)
        /\ Cardinality(AllDirect(ev.value)) = 80
        /\ Cardinality(AllDatagram(ev.value)) = 80

\* The jog of axis C was encoded for -250 in both protocols.
C32_Witness ==
    /\ ev.kind = "encoded"
    /\ ev.galil = <<"J", "G", "C", "=", "-", "2", "5", "0", ";", "B", "G", "C">>
    /\ ev.clearcore = <<"J", "O", "G", "_", "S", "E", "R", "V", "O", "_">> \o <<"3", "_", "-", "2", "5", "0">>

\* ------------------------------------------------- claims: edit clamp
\* C33: after an operator edit that leaves a numeric value in a setpoint
\* field, the value lies within the limits of the field for the axis and has
\* at most one decimal digit.
C33_EditWithinRange ==
    (ev.kind = "keyboard" /\ IsNum(ev.text)) =>
        /\ ev.min_val <= ev.text[2]
        /\ ev.text[2] <= ev.max_val
        /\ ev.text[2] % 10 = 0

\* ------------------------------------------------- claims: jog release
\* The handler of the last event was the release of a jog button.
JogReleased == ev.kind = "jog" /\ ~ev.is_press

\* C34: for every release of a jog button on an axis with a transport
\* present, the stop command ST of that axis is sent, whatever the axis
\* position and the text of the speed field at the release.
C34_ReleaseSendsStop ==
    (JogReleased /\ comm # "none") =>
        \E k \in 1..Len(wire) : wire[k].cmd = Cmd("ST", AXIS_LETTERS[ev.servo], <<>>)

\* ------------------------------------------------- claims: disable order
\* The handler of the last event was that of the disable button.
DisablePressed == ev.kind = "button" /\ ev.action = "disable"

\* C35: a disable action of an axis, with a transport present, sends the
\* stop command ST of the axis first and the disable command MO of the axis
\* second, and no button's handler sends MO without having sent ST of the
\* same axis before it.
C35_StopBeforeDisable ==
    /\ (DisablePressed /\ comm # "none") =>
          /\ Len(wire) = 2
          /\ wire[1].cmd = Cmd("ST", AXIS_LETTERS[ev.servo], <<>>)
          /\ wire[2].cmd = Cmd("MO", AXIS_LETTERS[ev.servo], <<>>)
    /\ ev.kind = "button" =>
          \A k \in 1..Len(wire) :
              wire[k].cmd.op = "MO" =>
                  \E j \in 1..(k - 1) : wire[j].cmd = Cmd("ST", wire[k].cmd.axis, <<>>)

\* The disable button of axis B was pressed and both commands went out.
C35_Witness ==
    /\ DisablePressed
    /\ ev.servo = 2
    /\ wire = <<[cmd |-> Cmd("ST", "B", <<>>), delivered |-> TRUE],
                [cmd |-> Cmd("MO", "B", <<>>), delivered |-> TRUE]>>

\* ------------------------------------------------- claims: serial receive
\* receive_response returned a message in serial mode.
SerialReceived == mode = "CommMode2" /\ ev.kind = "receive" /\ ev.result # <<>>

\* C36: in serial mode receive_response returns a message only if the
\* controller produced one: a returned message is a line of the device, and
\* while the device has sent nothing every receive returns None.
C36_ReceivedFromController ==
    /\ SerialReceived => ev.result[1].kind = "line"
    /\ (mode = "CommMode2" /\ ev.kind = "receive" /\ link.sent = 0) =>
          ev.result = <<>>

\* ------------------------------------------------- claims: one axis per cycle
\* The event a cycle's last step writes.
EventWritten == events'[Len(events')]

\* C37: the selected axis is read once per polling cycle: when a cycle
\* writes its event, the four queries of the cycle went to one axis, the
\* axis of the tab selected when the cycle began, and the event names that
\* servo and that axis, whatever tab is selected by then.
C37_OneAxisPerCycle ==
    [][(CycleEnds /\ Len(events') > Len(events)) =>
          /\ Len(cycle_log.queried) = Len(PollQueries)
          /\ \A k \in 1..Len(cycle_log.queried) :
                cycle_log.queried[k] = EventWritten.axis_letter
          /\ EventWritten.servo = cycle_log.selected
          /\ EventWritten.axis_letter = AXIS_LETTERS[EventWritten.servo]]_vars

\* A cycle that began on the tab of axis B has made its four queries and
\* written its event, and the operator has selected another tab.
C37_Witness ==
    /\ poll.pc = "loop_head"
    /\ events # <<>>
    /\ events[Len(events)].servo = 2
    /\ events[Len(events)].axis_letter = "B"
    /\ cycle_log.selected = 2
    /\ cycle_log.queried = <<"B", "B", "B", "B">>
    /\ active_tab # 2

\* ------------------------------------------------- claims: telemetry frame
\* The control loop takes a telemetry event off the channel and handles it.
EventHandled == Len(events') < Len(events)

\* The event carries no position the handler can decode: no position reply,
\* or a reply for an axis without calibration.
Undecodable(data) ==
    data.pos_resp = <<>> \/ AXIS_LETTERS[data.servo] \notin DOMAIN AXIS_UNITS

\* The state of servo j that a telemetry event may touch: last valid
\* position, miss counter, limit flag, setpoint texts, displayed position
\* and indication.
RuntimeUnchanged(j) ==
    /\ last_valid_pos'[j] = last_valid_pos[j]
    /\ invalid_resp_counters'[j] = invalid_resp_counters[j]
    /\ limit_tripped'[j] = limit_tripped[j]
    /\ field_text'[j] = field_text[j]
    /\ actual_pos'[j] = actual_pos[j]
    /\ status_text'[j] = status_text[j]

\* C38: the handler of a telemetry event of servo i changes the runtime
\* state of servo i only, and for an event without a decodable position it
\* leaves the limit flag of every servo as it was, sends no stop command and
\* changes nothing of servo i but its miss counter, which grows by one.
C38_TelemetryFrame ==
    [][EventHandled =>
          LET data == Head(events)
              i    == data.servo
          IN  /\ \A j \in Servos \ {i} : RuntimeUnchanged(j)
              /\ last_setpoints' = last_setpoints
              /\ Undecodable(data) =>
                    /\ limit_tripped' = limit_tripped
                    /\ wire' = <<>>
                    /\ invalid_resp_counters'[i] = invalid_resp_counters[i] + 1
                    /\ last_valid_pos' = last_valid_pos
                    /\ status_text' = status_text
                    /\ field_text' = field_text]_vars

\* The limit flag of axis A is set, and an event of servo 2 without a
\* position reply has been handled: it was counted as a miss and sent nothing.
C38_Witness ==
    /\ ev.kind = "poll"
    /\ ev.servo = 2
    /\ ev.pos_resp = <<>>
    /\ invalid_resp_counters[2] >= 1
    /\ limit_tripped[1]
    /\ wire = <<>>

\* ------------------------------------------------- claims: overlapping sends
\* The control loop, and the polling thread, is inside send_command on the
\* open handle.
LoopInSend == ev.kind = "in_send" /\ comm = "open"

ThreadInSend == poll.pc = "in_send" /\ comm = "open"

\* C39: command exchanges on the shared transport do not overlap: a send of
\* the control loop for an operator action and a send of the polling thread
\* are never in progress at the same time on the same handle.
C39_SendsDoNotOverlap == ~(LoopInSend /\ ThreadInSend)

\* ------------------------------------------------- claims: own replies
\* C40: the value a telemetry event reports for position, torque, status or
\* speed is the numeric line the device returned to that item's own query of
\* the cycle, or none when it returned none: never the reply to another
\* query of the cycle and never a queued reply to an operator command.
C40_FieldsAreOwnReplies ==
    [][CycleEnds =>
          /\ \A k \in 1..Len(PollQueries) : poll.resp[k] = cycle_log.own[k]
          /\ Len(events') > Len(events) =>
                EventWritten.pos_resp = cycle_log.own[1]]_vars

\* A cycle is about to write its event: the position is the reply to its
\* own query, the torque query got no numeric reply, and the reply to a jog
\* command of the operator sits in the queue.
C40_Witness ==
    /\ poll.pc = "emit"
    /\ poll.resp[1] = <<20000>>
    /\ poll.resp[2] = <<>>
    /\ cycle_log.own = poll.resp
    /\ ev.kind = "jog"
    /\ message_queue # <<>>

====
